---- MODULE Spec2Model ----
(***************************************************************************)
(* A model of the decomposition-resolution and ordering engine of          *)
(* UniversalLanguageOSMFData (japanese/scripts) and of its batch           *)
(* refinement script.                                                      *)
(*                                                                         *)
(* Characters are Unicode code points (naturals); a Python str is a        *)
(* sequence of code points.  Each part of the program has its own          *)
(* variables and its own specification:                                    *)
(*   SpecNorm / FairSpecNorm   lib/normalizers.py                          *)
(*   SpecComp                  adapters/component_analysis.py              *)
(*   SpecPop                   analyzers/find_component_popularity.py      *)
(*   SpecOrder                 generators/learning_order_generator.py      *)
(*   SpecValidate              validate_order of both order generators     *)
(*   SpecCache                 the caches of component_analysis.py across  *)
(*                             normalizers                                 *)
(*   SpecDocs                  write_json_document / delete_json_document  *)
(*                             and the reconciliation of kanji_generator   *)
(*   SpecRead                  validate_learning_order_document            *)
(*   SpecDeps                  grapheme_dependency_generator.py,           *)
(*                             kanji_dependency_generator.py,              *)
(*                             load_dependencies                           *)
(*   SpecColl                  kanjidic2 entries that normalize to one     *)
(*                             kanji                                       *)
(*   SpecLoad                  load_chise_ids / load_kanjivg_index         *)
(*   FairSpecPop               calculate_popularity run to its end         *)
(*   SpecReady                 kanji_grapheme_dependency_generator.py,     *)
(*                             kanji_learning_order_generator.py           *)
(*   SpecStroke                compute_order on unknown stroke counts      *)
(*   SpecRefine / SpecResume   refine_documents.py: run_batch and the      *)
(*                             progress ledger, without and with a crash   *)
(* A specification leaves the variables of the other parts at their idle   *)
(* values.                                                                 *)
(***************************************************************************)
EXTENDS Integers, Sequences, FiniteSets, TLC

VARIABLES
    \* ---- lib/normalizers.py
    nfkc_table,          \* unicodedata.normalize('NFKC', .) as far as it has been called
    variant_to_symbol,   \* the table given to make_grapheme_normalizer
    norm_pc,             \* where the current normalize(char) call stands
    norm_char,           \* the argument of the current normalize call
    norm_seen,           \* nfkc: seen
    norm_result,         \* nfkc / nfkc_plus: result
    norm_iters,          \* nfkc: iterations of the while loop run by the current call
    norm_outs,           \* the values returned by the normalize calls made so far
    \* ---- adapters/component_analysis.py
    comp_char,           \* the character the calls are made for
    normalizer,          \* the normalizer given to the calls
    chise_ids,           \* load_chise_ids(): char -> IDS string
    kanjivg_chars,       \* load_kanjivg_index(): the characters with an SVG file
    kvg_files,           \* what reading a character's SVG file gives
    chise_cache,         \* _chise_cache
    kanjivg_cache,       \* _kanjivg_cache
    comp_ret,            \* the last call and what it returned
    comp_calls,          \* the number of calls made
    \* ---- analyzers/find_component_popularity.py
    pop_graphemes,       \* the grapheme table: symbol -> its variant symbols
    pop_order,           \* the keys of kanji_dict in the order it is iterated
    pop_original,        \* kanji_dict[key].original
    pop_popularity,      \* kanji_dict[key].popularity
    pop_idx,             \* the entry the loop of calculate_popularity is at (1-based)
    pop_stack,           \* the process_children calls in progress
    pop_first,           \* the popularity counts of the first run
    pop_edges,           \* the (parent, component entry) pairs the run has credited
    pop_recursed,        \* entry -> the recursive process_children calls made for it
    pop_pc,              \* "idle", "run1", "run2" or "done"
    \* ---- generators/learning_order_generator.py
    ord_graphemes,       \* load_graphemes(): the documents in the order of iteration
    ord_popularity,      \* load_popularity(): grapheme $id -> popularity
    ord_groups,          \* load_variant_groups(): the documents in the order of iteration
    ord_result,          \* the list returned by compute_order
    ord_doc,             \* "many" of the document made from it
    ord_again,           \* the list returned with the inputs iterated in another order
    ord_pc,              \* "idle", "loaded", "ordered" or "done"
    \* ---- validate_order of both generators
    val_ordered,         \* the order given to validate_order
    val_deps,            \* the dependencies, in the order of iteration
    val_ret,              \* the call made and the violations it returned
    \* ---- lib/grapheme_io.py (write / delete) and the generators' main()
    fs_files,            \* the target directory: file name -> content
    gen_docs,            \* new_documents / new_dependencies: file name -> document
    gen_dry_run,         \* args.dry_run
    gen_sets,            \* to_create, to_update and to_delete, once computed
    gen_todo,            \* the file names the current loop has still to go through
    gen_pc,              \* "idle", "start", "writing", "deleting", "done" or "raised"
    gen_run,             \* the runs of main() that write, this one included
    gen_last,             \* the last write_json_document / delete_json_document call
    \* ---- tests/test_learning_order_semantics.py
    lo_document,         \* the learning-order document given to the validation
    lo_ret,               \* the call made and the ValueError it raised, if any
    \* ---- generators/grapheme_dependency_generator.py, kanji_dependency_generator.py
    dep_graphemes,       \* load_graphemes_with_mappings(): symbol -> its variant symbols
    dep_todo,            \* the graphemes the loop has still to go through
    dep_new,             \* new_dependencies of the grapheme generator: parent -> components
    dep_kidx,            \* the entry of kanji_entries the kanji loop is at (1-based)
    dep_knew,            \* new_dependencies of the kanji generator: parent -> prerequisites
    dep_loaded,          \* the document load_dependencies read and the list it made
    dep_pc,               \* "idle", "graphemes", "kanji", "load" or "done"
    \* ---- kanjidic2 entries that normalize to one kanji
    kd_entries,          \* the entries parsed from kanjidic2.xml, in the order read
    kd_idx,              \* the entry build_memoization_dict is at (1-based)
    kanji_dict,          \* kanji_dict of build_memoization_dict
    kg_idx,              \* the entry the loop of kanji_generator is at (1-based)
    new_documents,        \* new_documents of kanji_generator: $id -> document
    \* ---- the two source files of adapters/component_analysis.py
    ids_file,            \* the CHISE IDS file: present or not, and its lines
    index_file,          \* kvg-index.json: present or not, and its keys
    load_pc,             \* "idle", "load_chise", "load_index", "resolve", "done", "raised"
    load_raised,          \* the exception that ended the run, or "none"
    \* ---- kanji_grapheme_dependency_generator.py, kanji_learning_order_generator.py
    kr_kanji,            \* load_kanji_documents(): kanji $id -> strokeCount (no or one number)
    kr_components,       \* kanji $id -> get_all_components_expanded(entry.literal, ..)
    kr_positions,        \* load_grapheme_learning_order(): grapheme $id -> position
    kr_grades,           \* load_kanjidic_grades()
    kr_popularity,       \* load_popularity()
    kr_deps,             \* the kanji-grapheme dependency documents: parent -> components
    kr_readiness,        \* compute_grapheme_readiness(..)
    kr_ordered,          \* compute_order(..)
    kr_pc,                \* "idle", "deps", "readiness", "order" or "done"
    \* ---- compute_order of learning_order_generator.py on unknown stroke counts
    sk_graphemes,        \* load_graphemes(): documents whose strokeCount may be null
    sk_popularity,       \* load_popularity()
    sk_ret,              \* what compute_order returned or raised
    \* ---- refine_documents.py
    rf_file,             \* the ledger file: "absent", "torn" (opened for writing, not yet written) or "json"
    rf_saved,            \* the "completed" list of the ledger file when it holds JSON
    rf_batch_size,       \* args.batch_size
    rf_workers,          \* args.workers
    rf_completed,        \* ProgressLedger._completed
    rf_lock,             \* ProgressLedger._lock: the batch whose thread holds it, or NoThread
    rf_loaded,           \* what ProgressLedger._load gave this run
    rf_batches,          \* main(): batches
    rf_pc,               \* batch -> where its run_batch call stands
    rf_attempt,          \* batch -> attempt
    rf_outcomes,         \* batch -> how the subprocess.run calls made for it ended
    rf_sleeps,           \* batch -> the delays of the time.sleep calls made for it
    rf_data,             \* batch -> data of ProgressLedger._save
    rf_before,           \* per crashed run: the files whose mark_done call had returned
    rf_main              \* "idle", "start", "running" or "done"

normVars == <<nfkc_table, variant_to_symbol, norm_pc, norm_char, norm_seen,
              norm_result, norm_iters, norm_outs>>

\* The tables the component lookups read, the two module-level caches, and
\* the calls made by the component model itself.
tableVars == <<normalizer, chise_ids, kanjivg_chars, kvg_files>>
cacheVars == <<chise_cache, kanjivg_cache>>
callVars == <<comp_char, comp_ret, comp_calls>>

compVars == <<tableVars, cacheVars, callVars>>

popVars == <<pop_graphemes, pop_order, pop_original, pop_popularity, pop_idx,
             pop_stack, pop_first, pop_edges, pop_recursed, pop_pc>>

orderVars == <<ord_graphemes, ord_popularity, ord_groups, ord_result, ord_doc,
               ord_again, ord_pc>>

valVars == <<val_ordered, val_deps, val_ret>>

docVars == <<fs_files, gen_docs, gen_dry_run, gen_sets, gen_todo, gen_pc, gen_run,
             gen_last>>

readVars == <<lo_document, lo_ret>>

depVars == <<dep_graphemes, dep_todo, dep_new, dep_kidx, dep_knew, dep_loaded, dep_pc>>

collVars == <<kd_entries, kd_idx, kanji_dict, kg_idx, new_documents>>

loadVars == <<ids_file, index_file, load_pc, load_raised>>

readyVars == <<kr_kanji, kr_components, kr_positions, kr_grades, kr_popularity,
               kr_deps, kr_readiness, kr_ordered, kr_pc>>

strokeVars == <<sk_graphemes, sk_popularity, sk_ret>>

refineVars == <<rf_file, rf_saved, rf_batch_size, rf_workers, rf_completed, rf_lock,
                rf_loaded, rf_batches, rf_pc, rf_attempt, rf_outcomes, rf_sleeps,
                rf_data, rf_before, rf_main>>

vars == <<normVars, compVars, popVars, orderVars, valVars, docVars, readVars, depVars, collVars, loadVars, readyVars, strokeVars, refineVars>>

\* What the actions of one part leave alone.  calculate_popularity goes
\* through get_all_components_expanded and so fills the two caches.
notNormVars == <<compVars, popVars, orderVars, valVars, docVars, readVars, depVars, collVars, loadVars, readyVars, strokeVars, refineVars>>
notCompVars == <<normVars, popVars, orderVars, valVars, docVars, readVars, depVars, collVars, loadVars, readyVars, strokeVars, refineVars>>
notPopVars == <<normVars, tableVars, callVars, orderVars, valVars, docVars, readVars, depVars, collVars, loadVars, readyVars, strokeVars, refineVars>>
notOrderVars == <<normVars, compVars, popVars, valVars, docVars, readVars, depVars, collVars, loadVars, readyVars, strokeVars, refineVars>>
notValVars == <<normVars, compVars, popVars, orderVars, docVars, readVars, depVars, collVars, loadVars, readyVars, strokeVars, refineVars>>

notDocVars == <<normVars, compVars, popVars, orderVars, valVars, readVars, depVars, collVars, loadVars, readyVars, strokeVars, refineVars>>

notReadVars == <<normVars, compVars, popVars, orderVars, valVars, docVars, depVars, collVars, loadVars, readyVars, strokeVars, refineVars>>

\* The dependency generators go through get_all_components_expanded too.
notDepVars == <<normVars, callVars, popVars, orderVars, valVars, docVars, readVars, collVars, loadVars, readyVars, strokeVars, refineVars>>

notCollVars == <<normVars, compVars, popVars, orderVars, valVars, docVars, readVars, depVars, loadVars, readyVars, strokeVars, refineVars>>

\* Loading sets the tables, and resolution goes through get_components.
notLoadVars == <<normVars, popVars, orderVars, valVars, docVars, readVars, depVars, collVars, readyVars, strokeVars, refineVars>>

notReadyVars == <<normVars, compVars, popVars, orderVars, valVars, docVars, readVars, depVars, collVars, loadVars, strokeVars, refineVars>>

notRefineVars == <<normVars, compVars, popVars, orderVars, valVars, docVars, readVars, depVars, collVars, loadVars, readyVars, strokeVars>>

notStrokeVars == <<normVars, compVars, popVars, orderVars, valVars, docVars, readVars, depVars, collVars, loadVars, readyVars, refineVars>>

(***************************************************************************)
(* Generic helpers                                                         *)
(***************************************************************************)

\* dict.get(key, default)
DictGet(d, key, default) == IF key \in DOMAIN d THEN d[key] ELSE default

\* The empty dict.
EmptyDict == [k \in {} |-> k]

\* The str of one code point.
Str1(cp) == <<cp>>

(***************************************************************************)
(* The idle values of each part                                            *)
(***************************************************************************)

\* No normalize call is made.
IdleNorm ==
    /\ nfkc_table = EmptyDict
    /\ variant_to_symbol = EmptyDict
    /\ norm_pc = "idle"
    /\ norm_char = <<>>
    /\ norm_seen = {}
    /\ norm_result = <<>>
    /\ norm_iters = 0
    /\ norm_outs = <<>>

\* No component call is made, and nothing is loaded.
IdleComp ==
    /\ comp_char = 0
    /\ normalizer = EmptyDict
    /\ chise_ids = EmptyDict
    /\ kanjivg_chars = {}
    /\ kvg_files = EmptyDict
    /\ chise_cache = EmptyDict
    /\ kanjivg_cache = EmptyDict
    /\ comp_ret = [fn |-> "none"]
    /\ comp_calls = 0

\* calculate_popularity is not run.
IdlePop ==
    /\ pop_graphemes = EmptyDict
    /\ pop_order = <<>>
    /\ pop_original = EmptyDict
    /\ pop_popularity = EmptyDict
    /\ pop_idx = 0
    /\ pop_stack = <<>>
    /\ pop_first = EmptyDict
    /\ pop_edges = {}
    /\ pop_recursed = EmptyDict
    /\ pop_pc = "idle"

\* The grapheme learning order is not generated.
IdleOrder ==
    /\ ord_graphemes = <<>>
    /\ ord_popularity = EmptyDict
    /\ ord_groups = <<>>
    /\ ord_result = <<>>
    /\ ord_doc = <<>>
    /\ ord_again = <<>>
    /\ ord_pc = "idle"

\* validate_order is not called.
IdleValidate ==
    /\ val_ordered = <<>>
    /\ val_deps = <<>>
    /\ val_ret = [fn |-> "none"]

\* No generator runs.
IdleDocs ==
    /\ fs_files = EmptyDict
    /\ gen_docs = EmptyDict
    /\ gen_dry_run = FALSE
    /\ gen_sets = [create |-> {}, update |-> {}, delete |-> {}]
    /\ gen_todo = {}
    /\ gen_pc = "idle"
    /\ gen_run = 0
    /\ gen_last = [fn |-> "none"]

\* No learning-order document is validated.
IdleRead ==
    /\ lo_document = [data |-> <<>>, many |-> <<>>]
    /\ lo_ret = [fn |-> "none"]

\* No dependency generator runs.
IdleDeps ==
    /\ dep_graphemes = EmptyDict
    /\ dep_todo = {}
    /\ dep_new = EmptyDict
    /\ dep_kidx = 0
    /\ dep_knew = EmptyDict
    /\ dep_loaded = [fn |-> "none"]
    /\ dep_pc = "idle"

\* No kanjidic2 entries are gone through.
IdleColl ==
    /\ kd_entries = <<>>
    /\ kd_idx = 0
    /\ kanji_dict = EmptyDict
    /\ kg_idx = 0
    /\ new_documents = EmptyDict

\* No source file is loaded.
IdleLoad ==
    /\ ids_file = [present |-> FALSE, lines |-> <<>>]
    /\ index_file = [present |-> FALSE, keys |-> {}]
    /\ load_pc = "idle"
    /\ load_raised = "none"

\* The kanji learning order is not generated.
IdleReady ==
    /\ kr_kanji = EmptyDict
    /\ kr_components = EmptyDict
    /\ kr_positions = EmptyDict
    /\ kr_grades = EmptyDict
    /\ kr_popularity = EmptyDict
    /\ kr_deps = EmptyDict
    /\ kr_readiness = EmptyDict
    /\ kr_ordered = <<>>
    /\ kr_pc = "idle"

\* compute_order is not called on documents with unknown stroke counts.
IdleStroke ==
    /\ sk_graphemes = <<>>
    /\ sk_popularity = EmptyDict
    /\ sk_ret = [fn |-> "none"]

\* refine_documents.py is not run.
IdleRefine ==
    /\ rf_file = "absent"
    /\ rf_saved = {}
    /\ rf_batch_size = 0
    /\ rf_workers = 0
    /\ rf_completed = {}
    /\ rf_lock = 0
    /\ rf_loaded = {}
    /\ rf_batches = <<>>
    /\ rf_pc = <<>>
    /\ rf_attempt = <<>>
    /\ rf_outcomes = <<>>
    /\ rf_sleeps = <<>>
    /\ rf_data = <<>>
    /\ rf_before = <<>>
    /\ rf_main = "idle"

(***************************************************************************)
(* lib/normalizers.py                                                      *)
(***************************************************************************)

\* CJK_RAD_SUPP_MAP, verbatim: code point -> code point of the base form.
\*   0x2E96, 0x2E97 -> U+5FC4   0x2EA8 -> U+72AD   0x2EB6..0x2EB8 -> U+7F8A
\*   0x2ECC..0x2ECE -> U+8FB6   0x2ECF, 0x2ED6 -> U+961D   0x2EDE..0x2EE0 -> U+98DF
CJK_RAD_SUPP_MAP ==
    (11926 :> 24516) @@ (11927 :> 24516) @@
    (11944 :> 29357) @@
    (11958 :> 32650) @@ (11959 :> 32650) @@ (11960 :> 32650) @@
    (11980 :> 36790) @@ (11981 :> 36790) @@ (11982 :> 36790) @@
    (11983 :> 38429) @@ (11990 :> 38429) @@
    (11998 :> 39135) @@ (11999 :> 39135) @@ (12000 :> 39135)

\* The longest multi-character form the platform normalization may return.
MaxStrLen == 3

\* The code points normalize is applied to: U+2E96 (a key of CJK_RAD_SUPP_MAP),
\* U+5FC4 (its base form) and U+2E8C (a radical supplement that is not mapped).
NormCodePoints == {11926, 24516, 11916}

SingleForms == {Str1(cp) : cp \in NormCodePoints}

\* Multi-character strings (NFKC may expand one character into several).
MultiForms == {[i \in 1..k |-> 24516] : k \in 2..MaxStrLen}

Forms == SingleForms \cup MultiForms

\* The tables a caller may pass: variant symbol -> canonical symbol.
VariantTables ==
    UNION {[keys -> SingleForms] : keys \in SUBSET SingleForms}

\* nfkc, line 70: the loop returns at a fixed point or at a form seen before.
NfkcStopsFixedPointOnly(normalized, result, seen) == normalized = result

NfkcStops(normalized, result, seen) ==
    normalized = result \/ normalized \in seen

\* nfkc_plus after its call of nfkc: the manual table for single characters.
NfkcPlusMap(result) ==
    IF Len(result) # 1 THEN result
    ELSE IF result[1] \in DOMAIN CJK_RAD_SUPP_MAP
         THEN Str1(CJK_RAD_SUPP_MAP[result[1]])
         ELSE result

\* normalize, line 131: variant_to_symbol.get(result, result)
VariantLookup(table, result) == DictGet(table, result, result)

InitNorm ==
    /\ nfkc_table = EmptyDict
    /\ variant_to_symbol \in VariantTables
    /\ norm_pc = "call"
    /\ norm_char \in SingleForms
    /\ norm_seen = {}
    /\ norm_result = <<>>
    /\ norm_iters = 0
    /\ norm_outs = <<>>
    /\ IdleComp /\ IdlePop /\ IdleOrder /\ IdleValidate /\ IdleDocs /\ IdleRead /\ IdleDeps /\ IdleColl /\ IdleLoad /\ IdleReady /\ IdleStroke /\ IdleRefine

\* normalize(char) -> nfkc_plus(char) -> nfkc(char), up to the while loop.
NormalizeEnter ==
    /\ norm_pc = "call"
    /\ norm_iters' = 0
    /\ norm_result' = norm_char
    /\ IF Len(norm_char) # 1
       THEN norm_seen' = {} /\ norm_pc' = "supp"
       ELSE norm_seen' = {norm_char} /\ norm_pc' = "loop"
    /\ UNCHANGED <<nfkc_table, variant_to_symbol, norm_char, norm_outs>>
    /\ UNCHANGED notNormVars

\* One iteration of nfkc's while loop.  The platform normalization is a
\* function: a form normalized before normalizes to the same value again.
NfkcIterate ==
    /\ norm_pc = "loop"
    /\ \E normalized \in Forms :
        /\ norm_result \in DOMAIN nfkc_table => normalized = nfkc_table[norm_result]
        /\ nfkc_table' = (norm_result :> normalized) @@ nfkc_table
        /\ norm_iters' = norm_iters + 1
        /\ IF NfkcStops(normalized, norm_result, norm_seen)
           THEN norm_pc' = "supp" /\ UNCHANGED <<norm_seen, norm_result>>
           ELSE /\ norm_seen' = norm_seen \cup {normalized}
                /\ norm_result' = normalized
                /\ norm_pc' = "loop"
    /\ UNCHANGED <<variant_to_symbol, norm_char, norm_outs>>
    /\ UNCHANGED notNormVars

\* The rest of nfkc_plus.
NfkcPlusReturn ==
    /\ norm_pc = "supp"
    /\ norm_result' = NfkcPlusMap(norm_result)
    /\ norm_pc' = "variant"
    /\ UNCHANGED <<nfkc_table, variant_to_symbol, norm_char, norm_seen,
                   norm_iters, norm_outs>>
    /\ UNCHANGED notNormVars

\* The rest of normalize.  The first value returned is normalized once more.
NormalizeReturn ==
    /\ norm_pc = "variant"
    /\ LET out == VariantLookup(variant_to_symbol, norm_result) IN
        /\ norm_outs' = Append(norm_outs, out)
        /\ IF Len(norm_outs) = 0
           THEN norm_pc' = "call" /\ norm_char' = out
           ELSE norm_pc' = "done" /\ norm_char' = norm_char
    /\ UNCHANGED <<nfkc_table, variant_to_symbol, norm_seen, norm_result, norm_iters>>
    /\ UNCHANGED notNormVars

NextNorm ==
    \/ NormalizeEnter
    \/ NfkcIterate
    \/ NfkcPlusReturn
    \/ NormalizeReturn

(***************************************************************************)
(* adapters/component_analysis.py                                          *)
(***************************************************************************)

\* IDS_OPERATORS: range(0x2FF0, 0x3000)
IDS_OPERATORS == 12272..12287

\* str.isspace() for one code point.
IsSpace(cp) ==
    cp \in (9..13) \cup (28..32) \cup {133, 160, 5760} \cup (8192..8202)
           \cup {8232, 8233, 8239, 8287, 12288}

\* '&' and ';'
Ampersand == 38
Semicolon == 59

\* The place of the first ';' of ids at or after place i (Len(ids) + 1: none).
RECURSIVE FirstSemicolon(_, _)
FirstSemicolon(ids, i) ==
    IF i > Len(ids) THEN Len(ids) + 1
    ELSE IF ids[i] = Semicolon THEN i
    ELSE FirstSemicolon(ids, i + 1)

\* re.sub(r'&[^;]+;', '', ids), from place i on: an '&', at least one
\* character that is not ';', and the ';' that follows are dropped.
RECURSIVE RemoveEntities(_, _)
RemoveEntities(ids, i) ==
    IF i > Len(ids) THEN <<>>
    ELSE LET j == FirstSemicolon(ids, i + 1) IN
         IF ids[i] = Ampersand /\ j <= Len(ids) /\ j >= i + 2
         THEN RemoveEntities(ids, j + 1)
         ELSE <<ids[i]>> \o RemoveEntities(ids, i + 1)

\* extract_ids_components
extract_ids_components(ids) ==
    LET ids_clean == RemoveEntities(ids, 1) IN
    {ids_clean[k] : k \in {k \in 1..Len(ids_clean) :
        /\ ids_clean[k] \notin IDS_OPERATORS
        /\ ~(IsSpace(ids_clean[k]) \/ ids_clean[k] < 11904)}}

\* get_chise_components on a cache miss (lines 128-145), with only the
\* character itself kept out of the set it yields.
ChiseLookupKeepSelf(char, ids_table) ==
    IF char \notin DOMAIN ids_table THEN {}
    ELSE extract_ids_components(ids_table[char])

\* get_chise_components on a cache miss (lines 128-145).
ChiseLookup(char, ids_table) ==
    IF char \notin DOMAIN ids_table THEN {}
    ELSE LET components == extract_ids_components(ids_table[char]) IN
         IF components = {char} THEN {}
         ELSE components \ {char}

\* get_chise_components: the value returned, and _chise_cache after the call.
get_chise_components(char, ids_table, cache) ==
    IF char \in DOMAIN cache THEN cache[char] ELSE ChiseLookup(char, ids_table)

ChiseCacheAfter(char, ids_table, cache) ==
    IF char \in DOMAIN cache THEN cache
    ELSE (char :> ChiseLookup(char, ids_table)) @@ cache

\* get_kanjivg_components on a cache miss (lines 191-214).  files[char] is
\* what SvgFileInfo gives: ok is FALSE when there is no usable file (sfi.OK
\* is false, a parse error, no strokes); components is the list
\* kanji.strokes.components(simplified=True, recursive=False).
KanjivgLookup(char, index, files) ==
    IF char \notin index THEN {}
    ELSE IF char \notin DOMAIN files \/ ~files[char].ok THEN {}
    ELSE {files[char].components[k] : k \in 1..Len(files[char].components)}

\* get_kanjivg_components: the value returned, and _kanjivg_cache after the call.
get_kanjivg_components(char, index, files, cache) ==
    IF char \in DOMAIN cache THEN cache[char] ELSE KanjivgLookup(char, index, files)

\* Lines 191-214 with the empty set stored at every miss.
KanjivgCacheAfterEmpty(char, index, files, cache) ==
    IF char \in DOMAIN cache THEN cache
    ELSE (char :> {}) @@ cache

KanjivgCacheAfter(char, index, files, cache) ==
    IF char \in DOMAIN cache THEN cache
    ELSE (char :> KanjivgLookup(char, index, files)) @@ cache

\* Lines 292 and 302 with > in place of >=.
PickLargerStrict(orig, norm) ==
    IF Cardinality(orig) > Cardinality(norm) THEN orig ELSE norm

\* Lines 292 and 302: orig if len(orig) >= len(norm) else norm
PickLarger(orig, norm) ==
    IF Cardinality(orig) >= Cardinality(norm) THEN orig ELSE norm

\* Lines 308-316 with the original character looked up only.
AtomicSourceCharOnly(char, normalized, ids_table, index) ==
    IF char \in DOMAIN ids_table THEN "chise-atomic"
    ELSE IF char \in index THEN "kanjivg-atomic"
    ELSE "none"

\* Lines 308-316: the tag of a character neither source decomposes.
AtomicSource(char, normalized, ids_table, index) ==
    IF char \in DOMAIN ids_table \/ normalized \in DOMAIN ids_table
    THEN "chise-atomic"
    ELSE IF char \in index \/ normalized \in index
    THEN "kanjivg-atomic"
    ELSE "none"

\* get_components: the pair returned, both caches after the call, and
\* whether the call went on to KanjiVG.
get_components(char, ids_table, index, files, norm_fn, ccache, kcache) ==
    LET normalized == norm_fn[char]
        chise_orig == get_chise_components(char, ids_table, ccache)
        ccache1    == ChiseCacheAfter(char, ids_table, ccache)
        chise_norm == IF char # normalized
                      THEN get_chise_components(normalized, ids_table, ccache1)
                      ELSE {}
        ccache2    == IF char # normalized
                      THEN ChiseCacheAfter(normalized, ids_table, ccache1)
                      ELSE ccache1
        chise_components == PickLarger(chise_orig, chise_norm)
        kvg_orig   == get_kanjivg_components(char, index, files, kcache)
        kcache1    == KanjivgCacheAfter(char, index, files, kcache)
        kvg_norm   == IF char # normalized
                      THEN get_kanjivg_components(normalized, index, files, kcache1)
                      ELSE {}
        kcache2    == IF char # normalized
                      THEN KanjivgCacheAfter(normalized, index, files, kcache1)
                      ELSE kcache1
        kvg_components == PickLarger(kvg_orig, kvg_norm)
    IN  IF chise_components # {}
        THEN [set |-> chise_components, source |-> "chise",
              ccache |-> ccache2, kcache |-> kcache, kvg_consulted |-> FALSE]
        ELSE IF kvg_components # {}
        THEN [set |-> kvg_components, source |-> "kanjivg",
              ccache |-> ccache2, kcache |-> kcache2, kvg_consulted |-> TRUE]
        ELSE [set |-> {}, source |-> AtomicSource(char, normalized, ids_table, index),
              ccache |-> ccache2, kcache |-> kcache2, kvg_consulted |-> TRUE]

\* Lines 357-371 without the update of line 371.
GiantSetOfThree(s1, s2, s3, s4) == s1 \cup s2 \cup s3

\* Lines 357-371: giant_set after the four updates.
GiantSetOf(s1, s2, s3, s4) == s1 \cup s2 \cup s3 \cup s4

\* Lines 374-375 without the second discard.
ExpandedDiscardCharOnly(giant_set, char, normalized) == giant_set \ {char}

\* Lines 374-375: giant_set.discard(char); giant_set.discard(normalized)
ExpandedDiscard(giant_set, char, normalized) == giant_set \ {char, normalized}

\* get_all_components_expanded: the set returned and both caches after the call.
get_all_components_expanded(char, ids_table, index, files, norm_fn, ccache, kcache) ==
    LET normalized == norm_fn[char]
        s1      == get_chise_components(char, ids_table, ccache)
        ccache1 == ChiseCacheAfter(char, ids_table, ccache)
        s2      == IF char # normalized
                   THEN get_chise_components(normalized, ids_table, ccache1)
                   ELSE {}
        ccache2 == IF char # normalized
                   THEN ChiseCacheAfter(normalized, ids_table, ccache1)
                   ELSE ccache1
        s3      == get_kanjivg_components(char, index, files, kcache)
        kcache1 == KanjivgCacheAfter(char, index, files, kcache)
        s4      == IF char # normalized
                   THEN get_kanjivg_components(normalized, index, files, kcache1)
                   ELSE {}
        kcache2 == IF char # normalized
                   THEN KanjivgCacheAfter(normalized, index, files, kcache1)
                   ELSE kcache1
    IN  [set |-> ExpandedDiscard(GiantSetOf(s1, s2, s3, s4), char, normalized),
         ccache |-> ccache2, kcache |-> kcache2]

\* The calls made in one run.
MaxCalls == 2

\* The characters of the component model: U+6728, U+6797, U+65E5.
CompChars == {26408, 26519, 26085}

\* IDS strings as the CHISE file writes them: the character alone, an
\* operator (U+2FF0) with two components, or an operator with a component
\* and an entity reference (&C;).
IdsStrings ==
    {<<a>> : a \in CompChars}
    \cup {<<12272, a, b>> : a \in CompChars, b \in CompChars}
    \cup {<<12272, a, Ampersand, 67, Semicolon>> : a \in CompChars}

\* What reading an SVG file gives: nothing usable, or a list of at most two
\* direct child components (a component may occur twice; the list is turned
\* into a set, so one order of two components stands for both).
SvgReads ==
    {[ok |-> FALSE, components |-> <<>>]}
    \cup {[ok |-> TRUE, components |-> l] :
            l \in {<<>>} \cup {<<a>> : a \in CompChars}
                  \cup {<<p[1], p[2]>> : p \in {q \in CompChars \X CompChars : q[1] <= q[2]}}}

\* The dicts with keys among keys and values in values.
DictsOver(keys, values) == UNION {[ks -> values] : ks \in SUBSET keys}

\* The normalizer that maps char to target and leaves the rest alone.
FoldNormalizer(char, target) ==
    [c \in CompChars |-> IF c = char THEN target ELSE c]

\* The tables are loaded and the caches are empty.  A call for comp_char
\* reads the tables at comp_char and at its normalized form only, so the
\* tables hold entries for these two characters at most.
InitComp ==
    /\ comp_char \in CompChars
    /\ \E target \in CompChars :
        /\ normalizer = FoldNormalizer(comp_char, target)
        /\ chise_ids \in DictsOver({comp_char, target}, IdsStrings)
        /\ kanjivg_chars \in SUBSET {comp_char, target}
        /\ kvg_files \in [kanjivg_chars -> SvgReads]
    /\ chise_cache = EmptyDict
    /\ kanjivg_cache = EmptyDict
    /\ comp_ret = [fn |-> "none"]
    /\ comp_calls = 0
    /\ IdleNorm /\ IdlePop /\ IdleOrder /\ IdleValidate /\ IdleDocs /\ IdleRead /\ IdleDeps /\ IdleColl /\ IdleLoad /\ IdleReady /\ IdleStroke /\ IdleRefine

\* get_components(comp_char, chise_ids, kanjivg_chars, normalizer)
GetComponents ==
    /\ comp_calls < MaxCalls
    /\ LET r == get_components(comp_char, chise_ids, kanjivg_chars, kvg_files,
                               normalizer, chise_cache, kanjivg_cache) IN
        /\ comp_ret' = [fn |-> "components", set |-> r.set, source |-> r.source,
                        kvg_consulted |-> r.kvg_consulted,
                        kvg_before |-> kanjivg_cache]
        /\ chise_cache' = r.ccache
        /\ kanjivg_cache' = r.kcache
    /\ comp_calls' = comp_calls + 1
    /\ UNCHANGED <<comp_char, normalizer, chise_ids, kanjivg_chars, kvg_files>>
    /\ UNCHANGED notCompVars

\* get_all_components_expanded(comp_char, chise_ids, kanjivg_chars, normalizer)
GetAllComponentsExpanded ==
    /\ comp_calls < MaxCalls
    /\ LET r == get_all_components_expanded(comp_char, chise_ids, kanjivg_chars,
                    kvg_files, normalizer, chise_cache, kanjivg_cache) IN
        /\ comp_ret' = [fn |-> "expanded", set |-> r.set]
        /\ chise_cache' = r.ccache
        /\ kanjivg_cache' = r.kcache
    /\ comp_calls' = comp_calls + 1
    /\ UNCHANGED <<comp_char, normalizer, chise_ids, kanjivg_chars, kvg_files>>
    /\ UNCHANGED notCompVars

NextComp ==
    \/ GetComponents
    \/ GetAllComponentsExpanded

(***************************************************************************)
(* adapters/component_analysis.py: calls for any character, made with any  *)
(* normalizer against the same tables, and the two cache resets            *)
(***************************************************************************)

\* The character after c, and the one before, in the order of CompChars.
NextCompChar(c) ==
    IF \E d \in CompChars : d > c
    THEN CHOOSE d \in CompChars : d > c /\ \A e \in CompChars : e > c => d <= e
    ELSE CHOOSE d \in CompChars : \A e \in CompChars : d <= e

PrevCompChar(c) == CHOOSE d \in CompChars : NextCompChar(d) = c

\* identity_normalizer and the normalizers that fold one character onto
\* the next.
CacheNormalizers ==
    {FoldNormalizer(0, 0)} \cup {FoldNormalizer(c, NextCompChar(c)) : c \in CompChars}

\* load_chise_ids(): a character has no entry or is made of the next
\* character.
CacheIdsTables ==
    {t \in DictsOver(CompChars, IdsStrings) :
        \A c \in DOMAIN t : t[c] = <<12272, NextCompChar(c), NextCompChar(c)>>}

\* The call finds an entry of one of the caches for the character or for
\* its normalized form.
CacheHit(char, norm_fn, ccache, kcache) ==
    {char, norm_fn[char]} \cap (DOMAIN ccache \cup DOMAIN kcache) # {}

\* The SVG file of an indexed character: the character before as its one
\* component.
CacheSvgFiles(index) ==
    {f \in [index -> SvgReads] :
        \A c \in index : f[c] = [ok |-> TRUE, components |-> <<PrevCompChar(c)>>]}

\* The tables are loaded, the caches are empty, no call is made yet.
InitCache ==
    /\ chise_ids \in CacheIdsTables
    /\ kanjivg_chars \in SUBSET CompChars
    /\ kvg_files \in CacheSvgFiles(kanjivg_chars)
    /\ normalizer = FoldNormalizer(0, 0)
    /\ comp_char = 0
    /\ chise_cache = EmptyDict
    /\ kanjivg_cache = EmptyDict
    /\ comp_ret = [fn |-> "none"]
    /\ comp_calls = 0
    /\ IdleNorm /\ IdlePop /\ IdleOrder /\ IdleValidate /\ IdleDocs /\ IdleRead /\ IdleDeps /\ IdleColl /\ IdleLoad /\ IdleReady /\ IdleStroke /\ IdleRefine

\* get_components(char, chise_ids, kanjivg_chars, norm_fn) for any
\* character and any normalizer.
CachedGetComponents ==
    /\ comp_calls < MaxCalls
    /\ \E char \in CompChars, norm_fn \in CacheNormalizers :
        \E r \in {get_components(char, chise_ids, kanjivg_chars, kvg_files,
                                  norm_fn, chise_cache, kanjivg_cache)},
           cold \in {get_components(char, chise_ids, kanjivg_chars, kvg_files,
                                     norm_fn, EmptyDict, EmptyDict)} :
            /\ comp_ret' = [fn |-> "components", set |-> r.set, source |-> r.source,
                            cold |-> cold.set, cold_source |-> cold.source,
                            hit |-> CacheHit(char, norm_fn, chise_cache, kanjivg_cache),
                            switched |-> comp_calls > 0 /\ norm_fn # normalizer]
            /\ chise_cache' = r.ccache
            /\ kanjivg_cache' = r.kcache
            /\ comp_char' = char
            /\ normalizer' = norm_fn
    /\ comp_calls' = comp_calls + 1
    /\ UNCHANGED <<chise_ids, kanjivg_chars, kvg_files>>
    /\ UNCHANGED notCompVars

\* get_all_components_expanded(char, chise_ids, kanjivg_chars, norm_fn) for
\* any character and any normalizer.
CachedGetAllExpanded ==
    /\ comp_calls < MaxCalls
    /\ \E char \in CompChars, norm_fn \in CacheNormalizers :
        \E r \in {get_all_components_expanded(char, chise_ids, kanjivg_chars, kvg_files,
                                               norm_fn, chise_cache, kanjivg_cache)},
           cold \in {get_all_components_expanded(char, chise_ids, kanjivg_chars,
                            kvg_files, norm_fn, EmptyDict, EmptyDict)} :
            /\ comp_ret' = [fn |-> "expanded", set |-> r.set, source |-> "expanded",
                            cold |-> cold.set, cold_source |-> "expanded",
                            hit |-> CacheHit(char, norm_fn, chise_cache, kanjivg_cache),
                            switched |-> comp_calls > 0 /\ norm_fn # normalizer]
            /\ chise_cache' = r.ccache
            /\ kanjivg_cache' = r.kcache
            /\ comp_char' = char
            /\ normalizer' = norm_fn
    /\ comp_calls' = comp_calls + 1
    /\ UNCHANGED <<chise_ids, kanjivg_chars, kvg_files>>
    /\ UNCHANGED notCompVars

\* clear_chise_cache()
ClearChiseCache ==
    /\ chise_cache # EmptyDict
    /\ chise_cache' = EmptyDict
    /\ UNCHANGED <<tableVars, callVars, kanjivg_cache>>
    /\ UNCHANGED notCompVars

\* clear_kanjivg_cache()
ClearKanjivgCache ==
    /\ kanjivg_cache # EmptyDict
    /\ kanjivg_cache' = EmptyDict
    /\ UNCHANGED <<tableVars, callVars, chise_cache>>
    /\ UNCHANGED notCompVars

NextCache ==
    \/ CachedGetComponents
    \/ CachedGetAllExpanded
    \/ ClearChiseCache
    \/ ClearKanjivgCache

(***************************************************************************)
(* analyzers/find_component_popularity.py                                  *)
(***************************************************************************)

\* The CHISE entries loaded for one run.
MaxIdsEntries == 3

\* The characters of the popularity model: U+60C5, U+6027, U+5FC4 and the
\* radical U+2E96, which CJK_RAD_SUPP_MAP folds to U+5FC4.
PopChars == {24773, 24615, 24516, 11926}

\* parse_kanjidic(): the kanji of kanjidic2.xml, in file order.  The radical
\* is no kanjidic2 entry; it occurs in IDS strings only.
PopKanjidic == <<24516, 24615, 24773>>

\* The IDS strings of the run: one component written twice, or the radical
\* next to the character it folds to.
PopIdsStrings ==
    {<<12272, c, c>> : c \in PopChars} \cup {<<12272, 11926, 24516>>}

\* load_chise_ids(): at most MaxIdsEntries characters have an entry.
PopIdsTables ==
    UNION {[keys -> PopIdsStrings] :
            keys \in {k \in SUBSET PopChars : Cardinality(k) <= MaxIdsEntries}}

\* load_graphemes_from_turso, as symbol -> variant symbols: no grapheme
\* (--skip-db), or the grapheme U+5FC4 with the variant U+2E96.
PopGraphemeTables == {EmptyDict, (24516 :> <<11926>>)}

\* variant_to_symbol of load_graphemes_from_turso: variant -> canonical symbol.
PopVariantToSymbol(graphemes) ==
    [v \in UNION {{graphemes[s][k] : k \in 1..Len(graphemes[s])} : s \in DOMAIN graphemes}
        |-> CHOOSE s \in DOMAIN graphemes :
                \E k \in 1..Len(graphemes[s]) : graphemes[s][k] = v]

\* make_grapheme_normalizer(variant_to_symbol) on the characters of the run;
\* the platform NFKC leaves each of them as it is.
PopNormalizer(graphemes) ==
    [c \in PopChars |->
        LET base == DictGet(CJK_RAD_SUPP_MAP, c, c)
        IN  DictGet(PopVariantToSymbol(graphemes), base, base)]

\* Lines 261-272: the variant symbols of the grapheme a component belongs
\* to, by canonical symbol first, by variant symbol otherwise.
VariantSymbolsOf(comp, graphemes, norm_fn) ==
    LET normalized_comp == norm_fn[comp]
        owners == {s \in DOMAIN graphemes :
                    \E k \in 1..Len(graphemes[s]) : graphemes[s][k] = normalized_comp}
    IN  IF normalized_comp \in DOMAIN graphemes
        THEN {graphemes[normalized_comp][k] : k \in 1..Len(graphemes[normalized_comp])}
        ELSE UNION {{graphemes[s][k] : k \in 1..Len(graphemes[s])} : s \in owners}

\* Lines 268-272: get_all_components_expanded of each variant symbol.  A
\* cached entry is the value the lookup gives, so each call is read against
\* the caches as they were before the loop, and the entries the calls add
\* are put together.
MergeCalls(r, rest) ==
    [set |-> r.set \cup rest.set,
     ccache |-> r.ccache @@ rest.ccache,
     kcache |-> r.kcache @@ rest.kcache]

RECURSIVE ExpandVariants(_, _, _, _, _, _, _)
ExpandVariants(symbols, ids_table, index, files, norm_fn, ccache, kcache) ==
    IF symbols = {} THEN [set |-> {}, ccache |-> ccache, kcache |-> kcache]
    ELSE LET v == CHOOSE x \in symbols : TRUE
         IN  MergeCalls(get_all_components_expanded(v, ids_table, index, files,
                                                    norm_fn, ccache, kcache),
                        ExpandVariants(symbols \ {v}, ids_table, index, files,
                                       norm_fn, ccache, kcache))

\* Lines 262-273: the loop over giant_set, given what line 260 returned.
ExpandGiantSet(giant, graphemes, ids_table, index, files, norm_fn, ccache, kcache) ==
    MergeCalls(giant,
               ExpandVariants(UNION {VariantSymbolsOf(comp, graphemes, norm_fn) :
                                        comp \in giant.set},
                              ids_table, index, files, norm_fn, ccache, kcache))

\* get_expanded_children: the set returned and both caches after the call.
get_expanded_children(char, graphemes, ids_table, index, files, norm_fn, ccache, kcache) ==
    ExpandGiantSet(get_all_components_expanded(char, ids_table, index, files,
                                               norm_fn, ccache, kcache),
                   graphemes, ids_table, index, files, norm_fn, ccache, kcache)

\* build_memoization_dict: the caches after get_library_status and
\* get_components have been called for each kanjidic2 entry (the entries
\* each call adds, put together).
MergeCaches(r, rest) ==
    [ccache |-> r.ccache @@ rest.ccache, kcache |-> r.kcache @@ rest.kcache]

RECURSIVE CachesAfterMemo(_, _, _, _, _, _, _)
CachesAfterMemo(entries, ids_table, index, files, norm_fn, ccache, kcache) ==
    IF entries = <<>> THEN [ccache |-> ccache, kcache |-> kcache]
    ELSE LET kanji      == Head(entries)
             normalized == norm_fn[kanji]
             listed     == kanji \in index \/ normalized \in index
             kcache1    == IF listed
                           THEN KanjivgCacheAfter(kanji, index, files, kcache)
                           ELSE kcache
             kcache2    == IF listed /\ kanji # normalized
                           THEN KanjivgCacheAfter(normalized, index, files, kcache1)
                           ELSE kcache1
         IN  MergeCaches(get_components(kanji, ids_table, index, files,
                                        norm_fn, ccache, kcache2),
                         CachesAfterMemo(Tail(entries), ids_table, index, files,
                                         norm_fn, ccache, kcache))

\* The orders in which a dict of n entries may be iterated.
IterationOrders(n) ==
    {f \in [1..n -> 1..n] : \A i, j \in 1..n : f[i] = f[j] => i = j}

\* kanji_dict after build_memoization_dict: each kanjidic2 entry is its own
\* normalized form, so it is the key and the original of its entry, with
\* popularity 0.  The first run iterates the dict in insertion order.
InitPop ==
    /\ pop_graphemes \in PopGraphemeTables
    /\ normalizer = PopNormalizer(pop_graphemes)
    /\ chise_ids \in PopIdsTables
    /\ kanjivg_chars = {}
    /\ kvg_files = EmptyDict
    /\ \E c \in {CachesAfterMemo(PopKanjidic, chise_ids, kanjivg_chars, kvg_files,
                                   normalizer, EmptyDict, EmptyDict)} :
        chise_cache = c.ccache /\ kanjivg_cache = c.kcache
    /\ pop_order = PopKanjidic
    /\ pop_original = [k \in {PopKanjidic[i] : i \in 1..Len(PopKanjidic)} |-> k]
    /\ pop_popularity = [k \in {PopKanjidic[i] : i \in 1..Len(PopKanjidic)} |-> 0]
    /\ pop_idx = 1
    /\ pop_stack = <<>>
    /\ pop_first = EmptyDict
    /\ pop_edges = {}
    /\ pop_recursed = [k \in {PopKanjidic[i] : i \in 1..Len(PopKanjidic)} |-> 0]
    /\ pop_pc = "run1"
    /\ comp_char = 0
    /\ comp_ret = [fn |-> "none"]
    /\ comp_calls = 0
    /\ IdleNorm /\ IdleOrder /\ IdleValidate /\ IdleDocs /\ IdleRead /\ IdleDeps /\ IdleColl /\ IdleLoad /\ IdleReady /\ IdleStroke /\ IdleRefine

\* Lines 301-302: for entry in kanji_dict.values():
\* process_children(entry.original), up to the loop over the children.
PopNextEntry ==
    /\ pop_pc \in {"run1", "run2"}
    /\ pop_stack = <<>>
    /\ pop_idx <= Len(pop_order)
    /\ \E r \in {get_expanded_children(pop_original[pop_order[pop_idx]], pop_graphemes,
                        chise_ids, kanjivg_chars, kvg_files, normalizer,
                        chise_cache, kanjivg_cache)} :
        /\ pop_stack' = <<[char |-> pop_original[pop_order[pop_idx]],
                           children |-> r.set]>>
        /\ chise_cache' = r.ccache
        /\ kanjivg_cache' = r.kcache
    /\ pop_idx' = pop_idx + 1
    /\ UNCHANGED <<pop_graphemes, pop_order, pop_original, pop_popularity,
                   pop_first, pop_edges, pop_recursed, pop_pc>>
    /\ UNCHANGED notPopVars

\* Line 283 with the child itself as the key.
ChildKeyRaw(child, norm_fn) == child

\* Lines 282-283: the key of kanji_dict the child is looked up under.
ChildKey(child, norm_fn) == norm_fn[child]

\* Line 288 read as "the entry has been counted before or not".
WasZeroAlways(popularity) == TRUE

\* Line 288: was_zero = entry.popularity == 0
WasZero(popularity) == popularity = 0

\* Lines 281-294: one iteration of "for child in children" of the innermost
\* process_children call.  A set is iterated in an order the program does
\* not choose.
PopChild ==
    /\ pop_stack # <<>>
    /\ pop_stack[Len(pop_stack)].children # {}
    /\ \E child \in pop_stack[Len(pop_stack)].children :
        LET child_normalized == ChildKey(child, normalizer)
            rest == [pop_stack EXCEPT ![Len(pop_stack)].children = @ \ {child}]
        IN  IF child_normalized \in DOMAIN pop_popularity
            THEN /\ pop_popularity' =
                        [pop_popularity EXCEPT ![child_normalized] = @ + 1]
                 /\ pop_edges' = pop_edges
                        \cup {<<pop_stack[Len(pop_stack)].char, child_normalized>>}
                 /\ IF WasZero(pop_popularity[child_normalized])
                    THEN \E r \in {get_expanded_children(child, pop_graphemes, chise_ids,
                                      kanjivg_chars, kvg_files, normalizer,
                                      chise_cache, kanjivg_cache)} :
                             /\ pop_stack' = Append(rest, [char |-> child,
                                                           children |-> r.set])
                             /\ chise_cache' = r.ccache
                             /\ kanjivg_cache' = r.kcache
                             /\ pop_recursed' =
                                    [pop_recursed EXCEPT ![child_normalized] = @ + 1]
                    ELSE /\ pop_stack' = rest
                         /\ UNCHANGED <<cacheVars, pop_recursed>>
            ELSE /\ pop_stack' = rest
                 /\ UNCHANGED <<pop_popularity, pop_edges, pop_recursed, cacheVars>>
    /\ UNCHANGED <<pop_graphemes, pop_order, pop_original, pop_idx, pop_first, pop_pc>>
    /\ UNCHANGED notPopVars

\* The innermost process_children call has gone through its children.
PopReturn ==
    /\ pop_stack # <<>>
    /\ pop_stack[Len(pop_stack)].children = {}
    /\ pop_stack' = SubSeq(pop_stack, 1, Len(pop_stack) - 1)
    /\ UNCHANGED <<pop_graphemes, pop_order, pop_original, pop_popularity, pop_idx,
                   pop_first, pop_edges, pop_recursed, pop_pc, cacheVars>>
    /\ UNCHANGED notPopVars

\* The first run is over.  The same kanji_dict, with its counts at 0 again,
\* is run a second time, iterated in any order.
PopRunAgain ==
    /\ pop_pc = "run1"
    /\ pop_stack = <<>>
    /\ pop_idx > Len(pop_order)
    /\ pop_first' = pop_popularity
    /\ pop_popularity' = [k \in DOMAIN pop_popularity |-> 0]
    /\ pop_edges' = {}
    /\ pop_recursed' = [k \in DOMAIN pop_recursed |-> 0]
    /\ \E f \in IterationOrders(Len(pop_order)) :
        pop_order' = [i \in 1..Len(pop_order) |-> pop_order[f[i]]]
    /\ pop_idx' = 1
    /\ pop_pc' = "run2"
    /\ UNCHANGED <<pop_graphemes, pop_original, pop_stack, cacheVars>>
    /\ UNCHANGED notPopVars

\* The second run is over.
PopFinish ==
    /\ pop_pc = "run2"
    /\ pop_stack = <<>>
    /\ pop_idx > Len(pop_order)
    /\ pop_pc' = "done"
    /\ UNCHANGED <<pop_graphemes, pop_order, pop_original, pop_popularity, pop_idx,
                   pop_stack, pop_first, pop_edges, pop_recursed, cacheVars>>
    /\ UNCHANGED notPopVars

NextPop ==
    \/ PopNextEntry
    \/ PopChild
    \/ PopReturn
    \/ PopRunAgain
    \/ PopFinish

(***************************************************************************)
(* generators/learning_order_generator.py                                  *)
(*                                                                         *)
(* A $id is a natural that stands for a $id string; the $id strings of the *)
(* model have the same length, so that Python's string order is the order  *)
(* of the naturals.                                                        *)
(***************************************************************************)

\* The variant-group documents loaded.
MaxGroups == 2

\* The grapheme $ids of the model (after U+6C34, U+6C35, U+706B).
OrdIds == {27700, 27701, 28779}

\* The elements of a list.
Range(seq) == {seq[k] : k \in 1..Len(seq)}

\* sorted(S) for a set of $ids.
RECURSIVE SortedSeqOf(_)
SortedSeqOf(S) ==
    IF S = {} THEN <<>>
    ELSE LET m == CHOOSE x \in S : \A y \in S : x <= y
         IN  <<m>> \o SortedSeqOf(S \ {m})

\* sorted(list) for a list of $ids.
RECURSIVE Sorted(_)
Sorted(seq) ==
    IF seq = <<>> THEN <<>>
    ELSE LET k == CHOOSE i \in 1..Len(seq) : \A j \in 1..Len(seq) : seq[i] <= seq[j]
         IN  <<seq[k]>> \o Sorted(SubSeq(seq, 1, k - 1) \o SubSeq(seq, k + 1, Len(seq)))

\* A grapheme document: its $id, whether its name contains "Variant", and
\* its strokeCount (a list of no or one number: the key may be missing).
GraphemeDocs(id) ==
    [id : {id}, variant : BOOLEAN, strokeCount : {<<>>, <<1>>, <<2>>}]

\* load_graphemes(): one document per $id, for a non-empty set of $ids.
GraphemeLists ==
    UNION {{docs \in [1..Cardinality(ids) -> UNION {GraphemeDocs(id) : id \in ids}] :
                \A k \in 1..Cardinality(ids) : docs[k].id = SortedSeqOf(ids)[k]} :
           ids \in (SUBSET OrdIds) \ {{}}}

\* The member lists a variant-group document may hold for the graphemes
\* loaded: two or more graphemes, one of them the base, written in the
\* order of their $ids as create_variant_group_document writes them.
MemberLists(graphemes) ==
    {SortedSeqOf(m) : m \in {s \in SUBSET {graphemes[k].id : k \in 1..Len(graphemes)} :
        /\ Cardinality(s) >= 2
        /\ Cardinality({k \in 1..Len(graphemes) :
                            graphemes[k].id \in s /\ ~graphemes[k].variant}) = 1}}

\* load_variant_groups(): at most MaxGroups documents, each with its own $id.
GroupLists(graphemes) ==
    UNION {{groups \in [1..n -> [id : 1..n, members : MemberLists(graphemes)]] :
                \A k \in 1..n : groups[k].id = k} : n \in 0..MaxGroups}

\* graphemes.get(mid, {})
GraphemeGet(graphemes, mid) ==
    IF \E k \in 1..Len(graphemes) : graphemes[k].id = mid
    THEN graphemes[CHOOSE k \in 1..Len(graphemes) : graphemes[k].id = mid]
    ELSE [id |-> mid, variant |-> FALSE, strokeCount |-> <<>>]

\* doc.get("strokeCount", 999)
StrokeCountOf(doc) == IF doc.strokeCount = <<>> THEN 999 ELSE doc.strokeCount[1]

\* build_variant_group_map: member_to_group keeps the last group that names
\* a member; group_members is sorted(base_ids) + sorted(variant_ids).
build_variant_group_map(groups, graphemes) ==
    LET IsVariant(mid) == GraphemeGet(graphemes, mid).variant
        IsBase(mid) == ~GraphemeGet(graphemes, mid).variant
        named == UNION {Range(groups[k].members) : k \in 1..Len(groups)}
        Last(mid) == CHOOSE k \in 1..Len(groups) :
                        /\ mid \in Range(groups[k].members)
                        /\ \A j \in 1..Len(groups) :
                            mid \in Range(groups[j].members) => j <= k
    IN  [member_to_group |-> [mid \in named |-> groups[Last(mid)].id],
         group_members |->
            [gid \in {groups[k].id : k \in 1..Len(groups)} |->
                LET members == groups[CHOOSE k \in 1..Len(groups) :
                                        groups[k].id = gid].members
                IN  Sorted(SelectSeq(members, IsBase))
                        \o Sorted(SelectSeq(members, IsVariant))]]

\* Lines 139-165: the loop over graphemes.items(), from the k-th document on.
RECURSIVE SortEntries(_, _, _, _, _, _, _)
SortEntries(k, graphemes, popularity, member_to_group, group_members, already_grouped, sort_entries) ==
    IF k > Len(graphemes) THEN sort_entries
    ELSE LET gid == graphemes[k].id
             doc == graphemes[k]
         IN  IF gid \in already_grouped
             THEN SortEntries(k + 1, graphemes, popularity, member_to_group,
                              group_members, already_grouped, sort_entries)
             ELSE IF gid \in DOMAIN member_to_group
             THEN LET members == group_members[member_to_group[gid]]
                      base_id == members[1]
                      sort_key == <<StrokeCountOf(GraphemeGet(graphemes, base_id)),
                                    0 - DictGet(popularity, base_id, 0), base_id>>
                  IN  IF \E m \in Range(members) : m \in already_grouped
                      THEN SortEntries(k + 1, graphemes, popularity, member_to_group,
                                       group_members, already_grouped, sort_entries)
                      ELSE SortEntries(k + 1, graphemes, popularity, member_to_group,
                                       group_members,
                                       already_grouped \cup Range(members),
                                       Append(sort_entries,
                                              [key |-> sort_key, ids |-> members]))
             ELSE SortEntries(k + 1, graphemes, popularity, member_to_group,
                              group_members, already_grouped,
                              Append(sort_entries,
                                     [key |-> <<StrokeCountOf(doc),
                                                0 - DictGet(popularity, gid, 0), gid>>,
                                      ids |-> <<gid>>]))

\* Python's order of the sort keys (tuples of three numbers): a <= b.
KeyLeq(a, b) ==
    \/ a[1] < b[1]
    \/ a[1] = b[1] /\ a[2] < b[2]
    \/ a[1] = b[1] /\ a[2] = b[2] /\ a[3] <= b[3]

\* sort_entries.sort(key=...): a stable sort, entry after entry.
RECURSIVE SortByKey(_, _)
SortByKey(entries, sorted) ==
    IF entries = <<>> THEN sorted
    ELSE LET e == Head(entries)
             p == Cardinality({i \in 1..Len(sorted) : KeyLeq(sorted[i].key, e.key)})
         IN  SortByKey(Tail(entries),
                       SubSeq(sorted, 1, p) \o <<e>> \o SubSeq(sorted, p + 1, Len(sorted)))

\* Lines 170-172: ordered.extend(ids) for each entry.
RECURSIVE Flatten(_)
Flatten(entries) ==
    IF entries = <<>> THEN <<>> ELSE Head(entries).ids \o Flatten(Tail(entries))

\* compute_order of the grapheme learning order
compute_order(graphemes, popularity, member_to_group, group_members) ==
    Flatten(SortByKey(SortEntries(1, graphemes, popularity, member_to_group,
                                  group_members, {}, <<>>), <<>>))

\* create_learning_order_document: the "many" list of the document.
create_learning_order_document(ordered) ==
    [i \in 1..Len(ordered) |-> [item |-> ordered[i], position |-> i - 1]]

\* The same list iterated in another order.
Reiterated(seq, f) == [i \in 1..Len(seq) |-> seq[f[i]]]

\* The documents are loaded; nothing is computed yet.
InitOrder ==
    /\ ord_graphemes \in GraphemeLists
    /\ ord_popularity \in DictsOver({ord_graphemes[k].id : k \in 1..Len(ord_graphemes)}, {1})
    /\ ord_groups \in GroupLists(ord_graphemes)
    /\ ord_result = <<>>
    /\ ord_doc = <<>>
    /\ ord_again = <<>>
    /\ ord_pc = "loaded"
    /\ IdleNorm /\ IdleComp /\ IdlePop /\ IdleValidate /\ IdleDocs /\ IdleRead /\ IdleDeps /\ IdleColl /\ IdleLoad /\ IdleReady /\ IdleStroke /\ IdleRefine

\* main(): build_variant_group_map, compute_order, create_learning_order_document
ComputeOrder ==
    /\ ord_pc = "loaded"
    /\ LET map == build_variant_group_map(ord_groups, ord_graphemes)
           ordered == compute_order(ord_graphemes, ord_popularity,
                                    map.member_to_group, map.group_members)
       IN  /\ ord_result' = ordered
           /\ ord_doc' = create_learning_order_document(ordered)
    /\ ord_pc' = "ordered"
    /\ UNCHANGED <<ord_graphemes, ord_popularity, ord_groups, ord_again>>
    /\ UNCHANGED notOrderVars

\* The same documents, with the graphemes mapping and the variant-group
\* mapping iterated in any order.
ComputeOrderAgain ==
    /\ ord_pc = "ordered"
    /\ \E f \in IterationOrders(Len(ord_graphemes)), g \in IterationOrders(Len(ord_groups)) :
        LET graphemes == Reiterated(ord_graphemes, f)
            groups == Reiterated(ord_groups, g)
            map == build_variant_group_map(groups, graphemes)
        IN  ord_again' = compute_order(graphemes, ord_popularity,
                                       map.member_to_group, map.group_members)
    /\ ord_pc' = "done"
    /\ UNCHANGED <<ord_graphemes, ord_popularity, ord_groups, ord_result, ord_doc>>
    /\ UNCHANGED notOrderVars

NextOrder ==
    \/ ComputeOrder
    \/ ComputeOrderAgain

(***************************************************************************)
(* validate_order (learning_order_generator.py and                         *)
(* kanji_learning_order_generator.py)                                      *)
(***************************************************************************)

\* The length of the order given to validate_order.
MaxOrderLen == 3

\* The orders: any list of $ids of at most MaxOrderLen items.
OrderLists == UNION {[1..n -> OrdIds] : n \in 0..MaxOrderLen}

\* The component lists load_dependencies and load_kanji_dependencies make:
\* no $id twice.
ComponentLists ==
    {seq \in UNION {[1..n -> OrdIds] : n \in 0..Cardinality(OrdIds)} :
        \A i, j \in 1..Len(seq) : seq[i] = seq[j] => i = j}

\* deps.items(): one entry per parent, here iterated by parent $id.
DepLists ==
    {[k \in 1..Cardinality(DOMAIN d) |->
        [parent |-> SortedSeqOf(DOMAIN d)[k],
         components |-> d[SortedSeqOf(DOMAIN d)[k]]]] :
     d \in DictsOver(OrdIds, ComponentLists)}

\* position = {gid: i for i, gid in enumerate(ordered)}: the last index wins.
PositionOf(ordered) ==
    [gid \in Range(ordered) |->
        (CHOOSE k \in 1..Len(ordered) :
            /\ ordered[k] = gid
            /\ \A j \in 1..Len(ordered) : ordered[j] = gid => j <= k) - 1]

\* "if not pos" in place of "if pos is None": position 0 counts as missing.
HasPositionTruthy(position, gid) == gid \in DOMAIN position /\ position[gid] # 0

\* position.get(gid) is not None
HasPosition(position, gid) == gid \in DOMAIN position

\* The inner loop over component_ids, from the k-th component on.
RECURSIVE ComponentViolations(_, _, _, _)
ComponentViolations(k, parent_id, component_ids, position) ==
    IF k > Len(component_ids) THEN <<>>
    ELSE LET comp_id == component_ids[k]
             rest == ComponentViolations(k + 1, parent_id, component_ids, position)
         IN  IF ~HasPosition(position, comp_id) THEN rest
             ELSE IF position[comp_id] >= position[parent_id]
             THEN <<[comp |-> comp_id, comp_pos |-> position[comp_id],
                     parent |-> parent_id, parent_pos |-> position[parent_id]]>> \o rest
             ELSE rest

\* The outer loop over deps.items(), from the k-th entry on.
RECURSIVE ParentViolations(_, _, _)
ParentViolations(k, deps, position) ==
    IF k > Len(deps) THEN <<>>
    ELSE IF ~HasPosition(position, deps[k].parent)
    THEN ParentViolations(k + 1, deps, position)
    ELSE ComponentViolations(1, deps[k].parent, deps[k].components, position)
            \o ParentViolations(k + 1, deps, position)

\* validate_order: the violations, each with the two $ids and positions its
\* message names.
validate_order(ordered, deps) == ParentViolations(1, deps, PositionOf(ordered))

InitValidate ==
    /\ val_ordered \in OrderLists
    /\ val_deps \in DepLists
    /\ val_ret = [fn |-> "none"]
    /\ IdleNorm /\ IdleComp /\ IdlePop /\ IdleOrder /\ IdleDocs /\ IdleRead /\ IdleDeps /\ IdleColl /\ IdleLoad /\ IdleReady /\ IdleStroke /\ IdleRefine

\* learning_order_generator.validate_order(ordered, deps, graphemes)
ValidateGraphemeOrder ==
    /\ val_ret.fn = "none"
    /\ val_ret' = [fn |-> "grapheme", violations |-> validate_order(val_ordered, val_deps)]
    /\ UNCHANGED <<val_ordered, val_deps>>
    /\ UNCHANGED notValVars

\* kanji_learning_order_generator.validate_order(ordered, deps, kanji)
ValidateKanjiOrder ==
    /\ val_ret.fn = "none"
    /\ val_ret' = [fn |-> "kanji", violations |-> validate_order(val_ordered, val_deps)]
    /\ UNCHANGED <<val_ordered, val_deps>>
    /\ UNCHANGED notValVars

NextValidate ==
    \/ ValidateGraphemeOrder
    \/ ValidateKanjiOrder

(***************************************************************************)
(* lib/grapheme_io.py (write_json_document, delete_json_document) and the  *)
(* reconciliation steps of main() of the generators                        *)
(*                                                                         *)
(* A file name is the code point of the $id it is made from.  A file's     *)
(* content is what its bytes are to json.load: JSON text for a value, in   *)
(* the layout json.dump(indent=2) writes or in another one; text that is   *)
(* no JSON; or bytes that are no UTF-8 (a document cut inside a            *)
(* multi-byte character).  A number of a JSON text is written as an int    *)
(* ("1") or as a float ("1.0").                                            *)
(***************************************************************************)

\* The runs of main() that write, made one after the other.
MaxRuns == 2

\* The $ids documents are made for: U+6728, U+6797, U+65E5.
DocIds == {26408, 26519, 26085}

\* The numbers a strokeCount is written as: 1, 1.0 and 2.
IntNumbers == {<<"int", 1>>, <<"int", 2>>}
JsonNumbers == IntNumbers \cup {<<"float", 1>>}

\* The value of a record that holds none.
NoValue == [id |-> 0, strokeCount |-> <<"int", 0>>]

\* No file of that name.
Absent == [kind |-> "absent", value |-> NoValue, layout |-> "none"]

\* What a file of the target directory may hold: the JSON text of a
\* document with this $id or another, text that is no JSON, bytes that are
\* no UTF-8.
Contents(name) ==
    {[kind |-> "json", value |-> [id |-> i, strokeCount |-> n], layout |-> l] :
        i \in {name, 0}, n \in JsonNumbers, l \in {"dump", "other"}}
    \cup {[kind |-> "malformed", value |-> NoValue, layout |-> "none"],
          [kind |-> "undecodable", value |-> NoValue, layout |-> "none"]}

\* build_kanji_document / create_dependency_document: the document made
\* for a $id; its numbers are ints.
Documents(name) == {[id |-> name, strokeCount |-> n] : n \in IntNumbers}

\* json.load(f): the value of the text, or the exception raised.
json_load(content) ==
    IF content.kind = "json" THEN [raised |-> "none", value |-> content.value]
    ELSE IF content.kind = "malformed"
    THEN [raised |-> "JSONDecodeError", value |-> NoValue]
    ELSE [raised |-> "UnicodeDecodeError", value |-> NoValue]

\* json.dump(doc, f, ensure_ascii=False, indent=2); f.write("\n")
json_dump(doc) == [kind |-> "json", value |-> doc, layout |-> "dump"]

\* existing == doc for two loaded values: Python compares an int and a
\* float by their number.
PyEq(a, b) == a.id = b.id /\ a.strokeCount[2] = b.strokeCount[2]

\* Lines 195-202: the existing file parses to a value equal to doc.
WriteUnchanged(doc, content) ==
    /\ json_load(content).raised = "none"
    /\ PyEq(json_load(content).value, doc)

\* write_json_document(doc, filepath): the value returned, the exception
\* that leaves the call, and the file after the call.
write_json_document(doc, content) ==
    IF content.kind # "absent" /\ json_load(content).raised = "UnicodeDecodeError"
    THEN [ret |-> FALSE, raised |-> "UnicodeDecodeError", after |-> content]
    ELSE IF content.kind # "absent" /\ WriteUnchanged(doc, content)
    THEN [ret |-> FALSE, raised |-> "none", after |-> content]
    ELSE [ret |-> TRUE, raised |-> "none", after |-> json_dump(doc)]

\* delete_json_document(filepath)
delete_json_document(content) ==
    IF content.kind # "absent"
    THEN [ret |-> TRUE, after |-> Absent]
    ELSE [ret |-> FALSE, after |-> content]

\* set(f.name for f in DIR.glob("*.json"))
GlobJson(files) == {name \in DOMAIN files : files[name].kind # "absent"}

\* to_delete left empty.
ToDeleteNone(existing_files, new_files) == {}

\* to_create, to_update and to_delete of main()
ToCreate(existing_files, new_files) == new_files \ existing_files
ToUpdate(existing_files, new_files) == new_files \cap existing_files
ToDelete(existing_files, new_files) == existing_files \ new_files

\* The documents are built and the target directory holds what earlier
\* runs and other hands left there.
InitDocs ==
    /\ fs_files \in {f \in [DocIds -> {Absent} \cup UNION {Contents(n) : n \in DocIds}] :
                        \A n \in DocIds : f[n] \in {Absent} \cup Contents(n)}
    /\ gen_docs \in {d \in DictsOver(DocIds, UNION {Documents(n) : n \in DocIds}) :
                        \A n \in DOMAIN d : d[n] \in Documents(n)}
    /\ gen_dry_run \in BOOLEAN
    /\ gen_sets = [create |-> {}, update |-> {}, delete |-> {}]
    /\ gen_todo = {}
    /\ gen_pc = "start"
    /\ gen_run = 1
    /\ gen_last = [fn |-> "none"]
    /\ IdleNorm /\ IdleComp /\ IdlePop /\ IdleOrder /\ IdleValidate /\ IdleRead /\ IdleDeps /\ IdleColl /\ IdleLoad /\ IdleReady /\ IdleStroke /\ IdleRefine

\* main(): existing_files, new_files and the three sets; a dry run prints
\* them and is over.
Compare ==
    /\ gen_pc = "start"
    /\ gen_sets' = [create |-> ToCreate(GlobJson(fs_files), DOMAIN gen_docs),
                    update |-> ToUpdate(GlobJson(fs_files), DOMAIN gen_docs),
                    delete |-> ToDelete(GlobJson(fs_files), DOMAIN gen_docs)]
    /\ IF gen_dry_run
       THEN gen_pc' = "done" /\ gen_todo' = {}
       ELSE gen_pc' = "writing" /\ gen_todo' = DOMAIN gen_docs
    /\ UNCHANGED <<fs_files, gen_docs, gen_dry_run, gen_run, gen_last>>
    /\ UNCHANGED notDocVars

\* One iteration of "for filename, doc in new_documents.items()":
\* write_json_document(doc, DIR / filename).  An exception ends the run.
WriteNext ==
    /\ gen_pc = "writing"
    /\ \E name \in gen_todo :
        \E r \in {write_json_document(gen_docs[name], fs_files[name])} :
            /\ gen_last' = [fn |-> "write", run |-> gen_run, name |-> name,
                            before |-> fs_files[name], ret |-> r.ret,
                            raised |-> r.raised]
            /\ fs_files' = [fs_files EXCEPT ![name] = r.after]
            /\ gen_todo' = gen_todo \ {name}
            /\ gen_pc' = IF r.raised # "none" THEN "raised" ELSE "writing"
    /\ UNCHANGED <<gen_docs, gen_dry_run, gen_sets, gen_run>>
    /\ UNCHANGED notDocVars

\* The documents are written: on to "for filename in to_delete".
StartDelete ==
    /\ gen_pc = "writing"
    /\ gen_todo = {}
    /\ gen_todo' = gen_sets.delete
    /\ gen_pc' = "deleting"
    /\ UNCHANGED <<fs_files, gen_docs, gen_dry_run, gen_sets, gen_run, gen_last>>
    /\ UNCHANGED notDocVars

\* One iteration of "for filename in to_delete":
\* delete_json_document(DIR / filename).
DeleteNext ==
    /\ gen_pc = "deleting"
    /\ \E name \in gen_todo :
        \E r \in {delete_json_document(fs_files[name])} :
            /\ gen_last' = [fn |-> "delete", run |-> gen_run, name |-> name,
                            before |-> fs_files[name], ret |-> r.ret,
                            raised |-> "none"]
            /\ fs_files' = [fs_files EXCEPT ![name] = r.after]
            /\ gen_todo' = gen_todo \ {name}
    /\ UNCHANGED <<gen_docs, gen_dry_run, gen_sets, gen_run, gen_pc>>
    /\ UNCHANGED notDocVars

\* The stale files are deleted: main() is over.
FinishRun ==
    /\ gen_pc = "deleting"
    /\ gen_todo = {}
    /\ gen_pc' = "done"
    /\ UNCHANGED <<fs_files, gen_docs, gen_dry_run, gen_sets, gen_todo, gen_run,
                   gen_last>>
    /\ UNCHANGED notDocVars

\* The generator is run again on the same sources, not as a dry run.  A
\* dry run has written nothing and does not count.
RunAgain ==
    /\ gen_pc = "done"
    /\ gen_dry_run \/ gen_run < MaxRuns
    /\ gen_run' = IF gen_dry_run THEN gen_run ELSE gen_run + 1
    /\ gen_dry_run' = FALSE
    /\ gen_pc' = "start"
    /\ gen_last' = [fn |-> "none"]
    /\ UNCHANGED <<fs_files, gen_docs, gen_sets, gen_todo>>
    /\ UNCHANGED notDocVars

NextDocs ==
    \/ Compare
    \/ WriteNext
    \/ StartDelete
    \/ DeleteNext
    \/ FinishRun
    \/ RunAgain

(***************************************************************************)
(* tests/test_learning_order_semantics.py: validate_learning_order_document*)
(*                                                                         *)
(* A str is the sequence of its code points.  A key that may be missing    *)
(* from a dict is a list of no or one value.                               *)
(***************************************************************************)

\* The entries of "many".
MaxEntries == 3

\* "default", "n5-core", "N5", "default\n", "grapheme" and " "
StrDefault == <<100, 101, 102, 97, 117, 108, 116>>
StrN5Core == <<110, 53, 45, 99, 111, 114, 101>>
StrUpperN5 == <<78, 53>>
StrDefaultNewline == StrDefault \o <<10>>
StrGrapheme == <<103, 114, 97, 112, 104, 101, 109, 101>>
StrBlank == <<32>>

\* [a-z0-9]
LowerOrDigit == (97..122) \cup (48..57)

\* TRACK_ID_PATTERN.match(track_id): ^[a-z0-9][a-z0-9-]{0,63}$, where $
\* also matches before a newline that ends the string.
TrackIdCore(s) ==
    /\ Len(s) \in 1..64
    /\ s[1] \in LowerOrDigit
    /\ \A k \in 2..Len(s) : s[k] \in LowerOrDigit \cup {45}

TrackIdMatches(s) ==
    \/ TrackIdCore(s)
    \/ Len(s) >= 1 /\ s[Len(s)] = 10 /\ TrackIdCore(SubSeq(s, 1, Len(s) - 1))

\* content_type.strip() is empty
StripsToEmpty(s) == \A k \in 1..Len(s) : IsSpace(s[k])

\* Lines 81-82 with the comparison left out.
PositionsContiguousAny(positions) == TRUE

\* Lines 81-82: sorted(positions) == list(range(len(positions)))
PositionsContiguous(positions) ==
    Sorted(positions) = [i \in 1..Len(positions) |-> i - 1]

\* Lines 49-73: the first entry whose position is no integer >= 0 (0: none).
FirstBadPosition(many) ==
    IF \E k \in 1..Len(many) : many[k].position < 0
    THEN CHOOSE k \in 1..Len(many) :
            /\ many[k].position < 0
            /\ \A j \in 1..Len(many) : many[j].position < 0 => k <= j
    ELSE 0

\* validate_learning_order_document: the ValueError raised ("none": the
\* call returns).
validate_learning_order_document(document, intended_default_track) ==
    LET data == document.data
        many == document.many
        item_ids == [k \in 1..Len(many) |-> many[k].item]
        positions == [k \in 1..Len(many) |-> many[k].position]
    IN  IF data = <<>> THEN "data must be an object"
        ELSE IF data[1].contentType = <<>> \/ StripsToEmpty(data[1].contentType[1])
        THEN "data.contentType is required"
        ELSE IF data[1].trackId = <<>> \/ ~TrackIdMatches(data[1].trackId[1])
        THEN "data.trackId is required and must match"
        ELSE IF intended_default_track /\ data[1].trackId[1] # StrDefault
        THEN "documents intended as the default track must set data.trackId to 'default'"
        ELSE IF many = <<>> THEN "many must be a non-empty array"
        ELSE IF FirstBadPosition(many) # 0
        THEN "many[index].data.position must be an integer >= 0"
        ELSE IF Cardinality(Range(item_ids)) # Len(item_ids)
        THEN "many entries cannot repeat the same connectors.item.$id"
        ELSE IF Cardinality(Range(positions)) # Len(positions)
        THEN "many entries cannot repeat the same data.position value"
        ELSE IF ~PositionsContiguous(positions)
        THEN "positions must be contiguous and start at 0"
        ELSE "none"

\* The "data" objects: none, or one whose contentType and trackId are
\* missing, malformed or well-formed.
DataObjects ==
    {<<>>} \cup
    {<<[contentType |-> c, trackId |-> t]>> :
        c \in {<<>>, <<StrBlank>>, <<StrGrapheme>>},
        t \in {<<>>, <<StrUpperN5>>, <<StrN5Core>>, <<StrDefaultNewline>>,
               <<StrDefault>>}}

\* The "many" lists: at most MaxEntries entries, each with an item $id and
\* an integer position.
ManyLists ==
    UNION {[1..n -> [item : OrdIds, position : (0 - 1)..MaxEntries]] :
            n \in 0..MaxEntries}

InitRead ==
    /\ lo_document \in [data : DataObjects, many : ManyLists]
    /\ lo_ret = [fn |-> "none"]
    /\ IdleNorm /\ IdleComp /\ IdlePop /\ IdleOrder /\ IdleValidate /\ IdleDocs /\ IdleDeps /\ IdleColl /\ IdleLoad /\ IdleReady /\ IdleStroke /\ IdleRefine

\* validate_learning_order_document(document)
ValidateDocument ==
    /\ lo_ret.fn = "none"
    /\ lo_ret' = [fn |-> "validate", intended_default_track |-> FALSE,
                  raised |-> validate_learning_order_document(lo_document, FALSE)]
    /\ UNCHANGED lo_document
    /\ UNCHANGED notReadVars

\* validate_learning_order_document(document, intended_default_track=True)
ValidateDefaultTrack ==
    /\ lo_ret.fn = "none"
    /\ lo_ret' = [fn |-> "validate", intended_default_track |-> TRUE,
                  raised |-> validate_learning_order_document(lo_document, TRUE)]
    /\ UNCHANGED lo_document
    /\ UNCHANGED notReadVars

NextRead ==
    \/ ValidateDocument
    \/ ValidateDefaultTrack

(***************************************************************************)
(* generators/grapheme_dependency_generator.py, kanji_dependency_generator *)
(* .py and load_dependencies of lib/grapheme_io.py                         *)
(*                                                                         *)
(* The $id of a grapheme or kanji document is made from the code point of  *)
(* its symbol and stands here as that code point.                          *)
(***************************************************************************)

\* The entries of the "many" list of a dependency document read from disk.
MaxMany == 3

\* The lists of the elements of a set, in any order of iteration.
SeqsOf(S) == {f \in [1..Cardinality(S) -> S] : \A i, j \in 1..Cardinality(S) : f[i] = f[j] => i = j}

\* load_graphemes_with_mappings(): the graphemes are among U+5FC4 (with or
\* without its variant U+2E96), U+6027 and U+60C5.
DepGraphemeTables ==
    {t \in DictsOver({24516, 24615, 24773}, {<<>>, <<11926>>}) :
        \A s \in DOMAIN t : t[s] # <<>> => s = 24516}

\* The IDS strings of the run: those of the popularity run, and one of three
\* parts that holds the radical and the character it folds to.
DepIdsStrings == PopIdsStrings \cup {<<12274, 11926, 24516, 24615>>}

\* load_chise_ids(): entries for the three characters.
DepIdsTables == DictsOver({24516, 24615, 24773}, DepIdsStrings)

\* symbol_to_id of load_graphemes_with_mappings
SymbolToId(graphemes) == [s \in DOMAIN graphemes |-> s]

\* Line 177 (line 149 of the kanji generator) without the comparison.
NotSelfAny(comp_id, parent_id) == TRUE

\* Line 177 (line 149 of the kanji generator): comp_gid != gid
NotSelf(comp_id, parent_id) == comp_id # parent_id

\* Lines 178-179 (150-151 of the kanji generator) without the membership test.
AppendAlways(ids, comp_id) == Append(ids, comp_id)

\* Lines 178-179 (150-151 of the kanji generator): append unless present.
AppendUnique(ids, comp_id) ==
    IF comp_id \in Range(ids) THEN ids ELSE Append(ids, comp_id)

\* Lines 129-136: the expanded components of the symbol and of the
\* grapheme's own variants.
OwnGiantSet(symbol, graphemes, ids_table, index, files, norm_fn, ccache, kcache) ==
    MergeCalls(get_all_components_expanded(symbol, ids_table, index, files,
                                           norm_fn, ccache, kcache),
               ExpandVariants(Range(graphemes[symbol]), ids_table, index, files,
                              norm_fn, ccache, kcache))

\* Lines 129-157: giant_set as it stands at line 157 (at line 138 when it is
\* empty there), and both caches.
GraphemeGiantSet(symbol, graphemes, ids_table, index, files, norm_fn, ccache, kcache) ==
    ExpandGiantSet(OwnGiantSet(symbol, graphemes, ids_table, index, files,
                               norm_fn, ccache, kcache),
                   graphemes, ids_table, index, files, norm_fn, ccache, kcache)

\* Lines 170-179: the loop over normalized_to_originals.keys(), from the
\* k-th key on.
RECURSIVE GraphemeComponentIds(_, _, _, _, _, _)
GraphemeComponentIds(keys, k, gid, symbol_to_id, variant_to_id, ids) ==
    IF k > Len(keys) THEN ids
    ELSE LET comp_gid == IF keys[k] \in DOMAIN symbol_to_id
                         THEN <<symbol_to_id[keys[k]]>>
                         ELSE IF keys[k] \in DOMAIN variant_to_id
                         THEN <<variant_to_id[keys[k]]>>
                         ELSE <<>>
         IN  GraphemeComponentIds(keys, k + 1, gid, symbol_to_id, variant_to_id,
                IF comp_gid # <<>> /\ NotSelf(comp_gid[1], gid)
                THEN AppendUnique(ids, comp_gid[1])
                ELSE ids)

\* nfkc_plus on the characters of the run.
DepNfkcPlus == PopNormalizer(EmptyDict)

\* Lines 109-121 of the kanji generator: kanji_symbol_to_id and
\* kanji_entries; the first entry of a normalized form is kept.
RECURSIVE KanjiEntries(_, _, _)
KanjiEntries(graded, k, entries) ==
    IF k > Len(graded) THEN entries
    ELSE IF \E e \in Range(entries) : e.id = DepNfkcPlus[graded[k]]
    THEN KanjiEntries(graded, k + 1, entries)
    ELSE KanjiEntries(graded, k + 1,
            Append(entries, [id |-> DepNfkcPlus[graded[k]], literal |-> graded[k]]))

KanjiSymbolToId(entries) == [s \in {e.id : e \in Range(entries)} |-> s]

\* Lines 145-151 of the kanji generator: the loop over components, from the
\* k-th component on.
RECURSIVE PrerequisiteIds(_, _, _, _, _)
PrerequisiteIds(comps, k, kanji_id, kanji_symbol_to_id, ids) ==
    IF k > Len(comps) THEN ids
    ELSE LET normalized_comp == DepNfkcPlus[comps[k]]
         IN  PrerequisiteIds(comps, k + 1, kanji_id, kanji_symbol_to_id,
                IF normalized_comp \in DOMAIN kanji_symbol_to_id
                   /\ NotSelf(kanji_symbol_to_id[normalized_comp], kanji_id)
                THEN AppendUnique(ids, kanji_symbol_to_id[normalized_comp])
                ELSE ids)

\* load_dependencies, lines 134-141: the loop over doc.get("many", []),
\* from the k-th item on.
RECURSIVE LoadComponents(_, _, _, _)
LoadComponents(many, k, seen, components) ==
    IF k > Len(many) THEN components
    ELSE IF many[k] \in seen
    THEN LoadComponents(many, k + 1, seen, components)
    ELSE LoadComponents(many, k + 1, seen \cup {many[k]}, Append(components, many[k]))

\* The "many" lists of a dependency document on disk: any component $ids,
\* repeated or not.
ManyIdLists == UNION {[1..n -> {24516, 24615}] : n \in 0..MaxMany}

\* The graphemes and both sources are loaded; the caches are empty.
InitDeps ==
    /\ dep_graphemes \in DepGraphemeTables
    /\ normalizer = PopNormalizer(dep_graphemes)
    /\ chise_ids \in DepIdsTables
    /\ kanjivg_chars \in {{}, {24773}}
    /\ kvg_files = [c \in kanjivg_chars |-> [ok |-> TRUE, components |-> <<24516, 24516>>]]
    /\ chise_cache = EmptyDict
    /\ kanjivg_cache = EmptyDict
    /\ comp_char = 0
    /\ comp_ret = [fn |-> "none"]
    /\ comp_calls = 0
    /\ dep_todo = DOMAIN dep_graphemes
    /\ dep_new = EmptyDict
    /\ dep_kidx = 1
    /\ dep_knew = EmptyDict
    /\ dep_loaded = [fn |-> "none"]
    /\ dep_pc = "graphemes"
    /\ IdleNorm /\ IdlePop /\ IdleOrder /\ IdleValidate /\ IdleDocs /\ IdleRead /\ IdleColl /\ IdleLoad /\ IdleReady /\ IdleStroke /\ IdleRefine

\* One iteration of "for gid, doc in graphemes.items()" of the grapheme
\* dependency generator (lines 123-186).  The sets are iterated in an order
\* the program does not choose.
ProcessGrapheme ==
    /\ dep_pc = "graphemes"
    /\ \E gid \in dep_todo :
        \E r \in {GraphemeGiantSet(gid, dep_graphemes, chise_ids, kanjivg_chars,
                                   kvg_files, normalizer, chise_cache, kanjivg_cache)} :
            /\ chise_cache' = r.ccache
            /\ kanjivg_cache' = r.kcache
            /\ dep_todo' = dep_todo \ {gid}
            /\ \E keys \in SeqsOf({normalizer[comp] : comp \in r.set}) :
                \E ids \in {GraphemeComponentIds(keys, 1, gid, SymbolToId(dep_graphemes),
                                PopVariantToSymbol(dep_graphemes), <<>>)} :
                    dep_new' = IF ids # <<>> THEN (gid :> ids) @@ dep_new ELSE dep_new
    /\ UNCHANGED <<dep_graphemes, dep_kidx, dep_knew, dep_loaded, dep_pc, tableVars>>
    /\ UNCHANGED notDepVars

\* The graphemes are gone through: the kanji dependency generator runs in
\* the same process.
StartKanji ==
    /\ dep_pc = "graphemes"
    /\ dep_todo = {}
    /\ dep_pc' = "kanji"
    /\ UNCHANGED <<dep_graphemes, dep_todo, dep_new, dep_kidx, dep_knew, dep_loaded,
                   tableVars, cacheVars>>
    /\ UNCHANGED notDepVars

\* One iteration of "for kanji_id, entry in kanji_entries" of the kanji
\* dependency generator (lines 136-155).
ProcessKanji ==
    /\ dep_pc = "kanji"
    /\ dep_kidx <= Len(KanjiEntries(PopKanjidic, 1, <<>>))
    /\ \E entry \in {KanjiEntries(PopKanjidic, 1, <<>>)[dep_kidx]} :
        \E r \in {get_all_components_expanded(entry.literal, chise_ids, kanjivg_chars,
                        kvg_files, DepNfkcPlus, chise_cache, kanjivg_cache)} :
            /\ chise_cache' = r.ccache
            /\ kanjivg_cache' = r.kcache
            /\ \E comps \in SeqsOf(r.set) :
                \E ids \in {PrerequisiteIds(comps, 1, entry.id,
                                KanjiSymbolToId(KanjiEntries(PopKanjidic, 1, <<>>)), <<>>)} :
                    dep_knew' = IF ids # <<>> THEN (entry.id :> ids) @@ dep_knew
                                ELSE dep_knew
    /\ dep_kidx' = dep_kidx + 1
    /\ UNCHANGED <<dep_graphemes, dep_todo, dep_new, dep_loaded, dep_pc, tableVars>>
    /\ UNCHANGED notDepVars

\* The kanji are gone through.
StartLoad ==
    /\ dep_pc = "kanji"
    /\ dep_kidx > Len(KanjiEntries(PopKanjidic, 1, <<>>))
    /\ dep_pc' = "load"
    /\ UNCHANGED <<dep_graphemes, dep_todo, dep_new, dep_kidx, dep_knew, dep_loaded,
                   tableVars, cacheVars>>
    /\ UNCHANGED notDepVars

\* load_dependencies() on a dependency document of the directory.
LoadDependencies ==
    /\ dep_pc = "load"
    /\ \E many \in ManyIdLists :
        dep_loaded' = [fn |-> "load", many |-> many,
                       components |-> LoadComponents(many, 1, {}, <<>>)]
    /\ dep_pc' = "done"
    /\ UNCHANGED <<dep_graphemes, dep_todo, dep_new, dep_kidx, dep_knew,
                   tableVars, cacheVars>>
    /\ UNCHANGED notDepVars

NextDeps ==
    \/ ProcessGrapheme
    \/ StartKanji
    \/ ProcessKanji
    \/ StartLoad
    \/ LoadDependencies

(***************************************************************************)
(* Entries of kanjidic2 that normalize to one kanji:                       *)
(* build_memoization_dict of analyzers/find_component_popularity.py and    *)
(* the document loop of generators/kanji_generator.py                      *)
(***************************************************************************)

\* The entries of the dictionary file of a run.
MaxDictEntries == 3

\* The literals: U+6D77 and U+6F22, and the compatibility ideographs U+FA45
\* and U+FA47 that NFKC maps to them.
DictLiterals == {28023, 64069, 28450, 64071}

\* nfkc_plus on a literal: unicodedata.normalize("NFKC", .) maps U+FA45 to
\* U+6D77 and U+FA47 to U+6F22 and leaves the base forms; then the manual table.
LiteralNfkcPlus(literal) ==
    LET result == IF literal = 64069 THEN 28023
                  ELSE IF literal = 64071 THEN 28450
                  ELSE literal
    IN  IF result \in DOMAIN CJK_RAD_SUPP_MAP THEN CJK_RAD_SUPP_MAP[result] ELSE result

\* parse_kanjidic_full(): graded entries with a stroke count, each literal
\* once, in any order; an entry has English meanings or none.
DictEntryLists ==
    {es \in UNION {[1..n -> [literal : DictLiterals, stroke_count : {9, 10},
                             meanings : BOOLEAN]] : n \in 0..MaxDictEntries} :
        \A i, j \in 1..Len(es) : es[i].literal = es[j].literal => i = j}

\* Line 193: if stroke_count < existing.stroke_count
Replaces(stroke_count, existing) == stroke_count < existing.stroke_count

\* Lines 186-202 of build_memoization_dict for one entry.
MemoEntry(dict, kanji, stroke_count) ==
    LET normalized == LiteralNfkcPlus(kanji)
    IN  IF normalized \in DOMAIN dict
        THEN IF Replaces(stroke_count, dict[normalized])
             THEN [dict EXCEPT ![normalized].original = kanji,
                               ![normalized].stroke_count = stroke_count]
             ELSE dict
        ELSE (normalized :> [original |-> kanji, normalized |-> normalized,
                             stroke_count |-> stroke_count]) @@ dict

\* build_kanji_document: the fields that depend on which entry is kept.
build_kanji_document(entry) ==
    [symbol |-> LiteralNfkcPlus(entry.literal), strokeCount |-> entry.stroke_count]

\* Lines 100-115 of kanji_generator for one entry; doc_filename is made
\* from "$id", which is made from the normalized literal.
DocumentEntry(documents, entry) ==
    IF ~entry.meanings THEN documents
    ELSE IF LiteralNfkcPlus(entry.literal) \in DOMAIN documents THEN documents
    ELSE (LiteralNfkcPlus(entry.literal) :> build_kanji_document(entry)) @@ documents

\* The dictionary file is parsed; both programs are about to go through it.
InitColl ==
    /\ kd_entries \in DictEntryLists
    /\ kd_idx = 1
    /\ kanji_dict = EmptyDict
    /\ kg_idx = 1
    /\ new_documents = EmptyDict
    /\ IdleNorm /\ IdleComp /\ IdlePop /\ IdleOrder /\ IdleValidate /\ IdleDocs /\ IdleRead /\ IdleDeps /\ IdleLoad /\ IdleReady /\ IdleStroke /\ IdleRefine

\* One iteration of the loop of build_memoization_dict.
MemoNext ==
    /\ kd_idx \in 1..Len(kd_entries)
    /\ kanji_dict' = MemoEntry(kanji_dict, kd_entries[kd_idx].literal,
                               kd_entries[kd_idx].stroke_count)
    /\ kd_idx' = kd_idx + 1
    /\ UNCHANGED <<kd_entries, kg_idx, new_documents>>
    /\ UNCHANGED notCollVars

\* One iteration of "for entry in graded" of kanji_generator.
DocumentNext ==
    /\ kg_idx \in 1..Len(kd_entries)
    /\ new_documents' = DocumentEntry(new_documents, kd_entries[kg_idx])
    /\ kg_idx' = kg_idx + 1
    /\ UNCHANGED <<kd_entries, kd_idx, kanji_dict>>
    /\ UNCHANGED notCollVars

NextColl ==
    \/ MemoNext
    \/ DocumentNext

(***************************************************************************)
(* adapters/component_analysis.py: load_chise_ids and load_kanjivg_index   *)
(* on source files that are present or absent, and a resolution after them *)
(***************************************************************************)

\* The lines of the IDS file of a run.
MaxLines == 2

\* A line of the IDS file: a comment (";..."), a blank line, a line of fewer
\* than three tab-separated parts, or U+XXXX<TAB>char<TAB>IDS with or
\* without an @apparent= suffix.
IdsLines ==
    {[kind |-> k, char |-> 0, ids |-> <<>>, apparent |-> FALSE] :
        k \in {"comment", "blank", "short"}}
    \cup [kind : {"entry"}, char : {26519, 26408},
          ids : {<<12272, 26408, 26408>>, <<12272, 26085, 26408>>}, apparent : BOOLEAN]

IdsFiles ==
    {[present |-> FALSE, lines |-> <<>>]}
    \cup {[present |-> TRUE, lines |-> l] : l \in UNION {[1..n -> IdsLines] : n \in 0..MaxLines}}

\* kvg-index.json: its keys; U+6797.svg lists U+65E5 and, twice, U+6728.
IndexFiles ==
    {[present |-> FALSE, keys |-> {}]}
    \cup {[present |-> TRUE, keys |-> ks] : ks \in SUBSET {26519}}

\* load_chise_ids, lines 60-74: the loop over the lines, from the k-th on.
\* The part up to "@apparent=" is what the line record holds as ids.
RECURSIVE ParseIdsLines(_, _, _)
ParseIdsLines(lines, k, char_to_ids) ==
    IF k > Len(lines) THEN char_to_ids
    ELSE IF lines[k].kind # "entry" THEN ParseIdsLines(lines, k + 1, char_to_ids)
    ELSE ParseIdsLines(lines, k + 1,
            (lines[k].char :> lines[k].ids) @@ char_to_ids)

\* load_chise_ids: the dict returned.
load_chise_ids(file) ==
    IF ~file.present THEN EmptyDict
    ELSE ParseIdsLines(file.lines, 1, EmptyDict)

\* load_kanjivg_index: the set returned, or the exception open() raises.
load_kanjivg_index(file) ==
    IF ~file.present THEN [raised |-> "FileNotFoundError", chars |-> {}]
    ELSE [raised |-> "none", chars |-> file.keys]

\* The source files are as the run finds them; nothing is loaded.
InitLoad ==
    /\ ids_file \in IdsFiles
    /\ index_file \in IndexFiles
    /\ load_pc = "load_chise"
    /\ load_raised = "none"
    /\ normalizer = FoldNormalizer(0, 0)
    /\ chise_ids = EmptyDict
    /\ kanjivg_chars = {}
    /\ kvg_files = (26519 :> [ok |-> TRUE, components |-> <<26085, 26408, 26408>>])
    /\ chise_cache = EmptyDict
    /\ kanjivg_cache = EmptyDict
    /\ comp_char = 0
    /\ comp_ret = [fn |-> "none"]
    /\ comp_calls = 0
    /\ IdleNorm /\ IdlePop /\ IdleOrder /\ IdleValidate /\ IdleDocs /\ IdleRead /\ IdleDeps /\ IdleColl /\ IdleReady /\ IdleStroke /\ IdleRefine

\* chise_ids = load_chise_ids()
LoadChiseIds ==
    /\ load_pc = "load_chise"
    /\ chise_ids' = load_chise_ids(ids_file)
    /\ load_pc' = "load_index"
    /\ UNCHANGED <<ids_file, index_file, load_raised, normalizer, kanjivg_chars,
                   kvg_files, cacheVars, callVars>>
    /\ UNCHANGED notLoadVars

\* kanjivg_chars = load_kanjivg_index()
LoadKanjivgIndex ==
    /\ load_pc = "load_index"
    /\ \E r \in {load_kanjivg_index(index_file)} :
        /\ load_raised' = r.raised
        /\ kanjivg_chars' = IF r.raised = "none" THEN r.chars ELSE kanjivg_chars
        /\ load_pc' = IF r.raised = "none" THEN "resolve" ELSE "raised"
    /\ UNCHANGED <<ids_file, index_file, normalizer, chise_ids, kvg_files,
                   cacheVars, callVars>>
    /\ UNCHANGED notLoadVars

\* get_components(char, chise_ids, kanjivg_chars, normalizer) on what was loaded.
ResolveLoaded ==
    /\ load_pc = "resolve"
    /\ \E char \in {26519, 26408} :
        \E r \in {get_components(char, chise_ids, kanjivg_chars, kvg_files,
                                 normalizer, chise_cache, kanjivg_cache)} :
            /\ comp_char' = char
            /\ comp_ret' = [fn |-> "components", set |-> r.set, source |-> r.source]
            /\ chise_cache' = r.ccache
            /\ kanjivg_cache' = r.kcache
    /\ comp_calls' = comp_calls + 1
    /\ load_pc' = "done"
    /\ UNCHANGED <<ids_file, index_file, load_raised, tableVars>>
    /\ UNCHANGED notLoadVars

NextLoad ==
    \/ LoadChiseIds
    \/ LoadKanjivgIndex
    \/ ResolveLoaded

(***************************************************************************)
(* generators/kanji_grapheme_dependency_generator.py and                   *)
(* generators/kanji_learning_order_generator.py: grapheme readiness        *)
(***************************************************************************)

\* The kanji of the run: U+4E00 and U+660E.
ReadyKanji == {19968, 26126}

\* The graphemes: U+65E5 and U+6728 (with its variant U+2F4A); U+6708 is a
\* component that is no grapheme.
ReadySymbolToId == (26085 :> 26085) @@ (26408 :> 26408)
ReadyVariantToId == (12106 :> 26408)
ReadyComponents == {26085, 12106, 26376}

\* Default values of compute_order.
DEFAULT_GRADE == 99
DEFAULT_READINESS == 9999
DEFAULT_STROKE_COUNT == 999

\* nfkc_plus on the components of the run: NFKC maps the Kangxi radical
\* U+2F4A to U+6728.
ReadyNfkcPlus(comp) == IF comp = 12106 THEN 26408 ELSE comp

\* Lines 152-165 of kanji_grapheme_dependency_generator: the grapheme a
\* component stands for, if any.
GraphemeIdOf(comp) ==
    IF ReadyNfkcPlus(comp) \in DOMAIN ReadySymbolToId
    THEN <<ReadySymbolToId[ReadyNfkcPlus(comp)]>>
    ELSE IF ReadyNfkcPlus(comp) \in DOMAIN ReadyVariantToId
    THEN <<ReadyVariantToId[ReadyNfkcPlus(comp)]>>
    ELSE <<>>

\* Lines 152-165: grapheme_ids, from the k-th component on.
RECURSIVE GraphemeIds(_, _, _)
GraphemeIds(comps, k, ids) ==
    IF k > Len(comps) THEN ids
    ELSE GraphemeIds(comps, k + 1,
            IF GraphemeIdOf(comps[k]) # <<>> /\ GraphemeIdOf(comps[k])[1] \notin Range(ids)
            THEN Append(ids, GraphemeIdOf(comps[k])[1])
            ELSE ids)

\* Line 167: if grapheme_ids
EmitsDocument(grapheme_ids) == grapheme_ids # <<>>

\* compute_grapheme_readiness, lines 208-212: max_pos from the k-th id on.
RECURSIVE MaxPos(_, _, _, _)
MaxPos(grapheme_ids, k, positions, max_pos) ==
    IF k > Len(grapheme_ids) THEN max_pos
    ELSE MaxPos(grapheme_ids, k + 1, positions,
            IF grapheme_ids[k] \in DOMAIN positions /\ positions[grapheme_ids[k]] > max_pos
            THEN positions[grapheme_ids[k]]
            ELSE max_pos)

\* compute_grapheme_readiness
compute_grapheme_readiness(kanji_grapheme_deps, grapheme_positions) ==
    [kanji_id \in DOMAIN kanji_grapheme_deps |->
        MaxPos(kanji_grapheme_deps[kanji_id], 1, grapheme_positions, -1)]

\* compute_order, lines 235-240: the sort key of a kanji.
KanjiSortKey(kid, kanji, readiness, grades, popularity) ==
    <<IF kanji[kid] = <<>> THEN DEFAULT_STROKE_COUNT ELSE kanji[kid][1],
      DictGet(readiness, kid, DEFAULT_READINESS),
      DictGet(grades, kid, DEFAULT_GRADE),
      0 - DictGet(popularity, kid, 0),
      kid>>

\* Python's order of two tuples of five numbers.
KeyLess(a, b) ==
    \E i \in 1..5 : a[i] < b[i] /\ \A j \in 1..(i - 1) : a[j] = b[j]

\* compute_order: the $ids sorted by their keys (the keys differ in the $id).
RECURSIVE KanjiOrderOf(_, _, _, _, _)
KanjiOrderOf(kids, kanji, readiness, grades, popularity) ==
    IF kids = {} THEN <<>>
    ELSE LET first == CHOOSE x \in kids : \A y \in kids \ {x} :
                        KeyLess(KanjiSortKey(x, kanji, readiness, grades, popularity),
                                KanjiSortKey(y, kanji, readiness, grades, popularity))
         IN  <<first>> \o KanjiOrderOf(kids \ {first}, kanji, readiness, grades, popularity)

\* The kanji documents, the decomposition of each kanji, the grapheme order,
\* the grades and the popularity data are on disk; no kanji-grapheme
\* dependency document has been written.
InitReady ==
    /\ kr_kanji \in [ReadyKanji -> {<<4>>, <<5>>, <<>>}]
    /\ kr_components \in [ReadyKanji -> SUBSET ReadyComponents]
    /\ kr_positions \in {EmptyDict, (26085 :> 0) @@ (26408 :> 1), (26085 :> 1) @@ (26408 :> 0),
                         (26085 :> 0)}
    /\ kr_grades \in DictsOver(ReadyKanji, {1})
    /\ kr_popularity \in DictsOver({26126}, {1})
    /\ kr_deps = EmptyDict
    /\ kr_readiness = EmptyDict
    /\ kr_ordered = <<>>
    /\ kr_pc = "deps"
    /\ IdleNorm /\ IdleComp /\ IdlePop /\ IdleOrder /\ IdleValidate /\ IdleDocs /\ IdleRead /\ IdleDeps /\ IdleColl /\ IdleLoad /\ IdleStroke /\ IdleRefine

\* kanji_grapheme_dependency_generator, lines 145-169, and the documents
\* it leaves in the directory.  A set is iterated in any order.
GenerateKanjiGraphemeDeps ==
    /\ kr_pc = "deps"
    /\ \E orders \in [ReadyKanji -> UNION {SeqsOf(s) : s \in SUBSET ReadyComponents}] :
        /\ \A kid \in ReadyKanji : Range(orders[kid]) = kr_components[kid]
        /\ kr_deps' = [kid \in {k \in ReadyKanji :
                                   EmitsDocument(GraphemeIds(orders[k], 1, <<>>))} |->
                          GraphemeIds(orders[kid], 1, <<>>)]
    /\ kr_pc' = "readiness"
    /\ UNCHANGED <<kr_kanji, kr_components, kr_positions, kr_grades, kr_popularity,
                   kr_readiness, kr_ordered>>
    /\ UNCHANGED notReadyVars

\* kanji_learning_order_generator main, lines 360-363
ComputeGraphemeReadiness ==
    /\ kr_pc = "readiness"
    /\ kr_readiness' = compute_grapheme_readiness(kr_deps, kr_positions)
    /\ kr_pc' = "order"
    /\ UNCHANGED <<kr_kanji, kr_components, kr_positions, kr_grades, kr_popularity,
                   kr_deps, kr_ordered>>
    /\ UNCHANGED notReadyVars

\* kanji_learning_order_generator main, line 386
ComputeKanjiOrder ==
    /\ kr_pc = "order"
    /\ kr_ordered' = KanjiOrderOf(DOMAIN kr_kanji, kr_kanji, kr_readiness, kr_grades,
                                  kr_popularity)
    /\ kr_pc' = "done"
    /\ UNCHANGED <<kr_kanji, kr_components, kr_positions, kr_grades, kr_popularity,
                   kr_deps, kr_readiness>>
    /\ UNCHANGED notReadyVars

NextReady ==
    \/ GenerateKanjiGraphemeDeps
    \/ ComputeGraphemeReadiness
    \/ ComputeKanjiOrder

(***************************************************************************)
(* generators/learning_order_generator.py: compute_order on graphemes      *)
(* whose stroke count is unknown (no variant-group document is loaded)     *)
(***************************************************************************)

\* The "strokeCount" of a document: the key is absent, or its value is the
\* JSON null, or a number.
StrokeFields ==
    {[kind |-> "absent", value |-> 0], [kind |-> "null", value |-> 0]}
    \cup {[kind |-> "number", value |-> n] : n \in {1, 2}}

\* load_graphemes(): one document per $id, in the order the files are read.
StrokeDocLists ==
    UNION {{docs \in [1..Cardinality(ids) -> [id : ids, strokeCount : StrokeFields]] :
                \A i, j \in 1..Cardinality(ids) : docs[i].id = docs[j].id => i = j} :
           ids \in (SUBSET OrdIds) \ {{}}}

\* doc.get("strokeCount", 999): the default stands for an absent key only;
\* a null value is returned as None.
StrokeGet(doc) ==
    IF doc.strokeCount.kind = "absent" THEN [none |-> FALSE, value |-> 999]
    ELSE IF doc.strokeCount.kind = "null" THEN [none |-> TRUE, value |-> 0]
    ELSE [none |-> FALSE, value |-> doc.strokeCount.value]

\* Lines 162-166: the sort entry of a grapheme that is in no group.
StrokeSortEntry(doc, popularity) ==
    [stroke_count |-> StrokeGet(doc),
     key |-> <<StrokeGet(doc).value, 0 - DictGet(popularity, doc.id, 0), doc.id>>,
     ids |-> <<doc.id>>]

\* sort_entries.sort(key=...): Python compares the first elements of two
\* tuples first; None equals None, and None < int raises TypeError.  A list
\* that holds both a None and an int as first elements has two such keys
\* compared, whatever the order of the list.
SortRaises(entries) ==
    \E i, j \in 1..Len(entries) :
        entries[i].stroke_count.none /\ ~entries[j].stroke_count.none

\* compute_order, lines 139-174, with no variant group.
compute_order_strokes(graphemes, popularity) ==
    LET sort_entries == [k \in 1..Len(graphemes) |->
                            StrokeSortEntry(graphemes[k], popularity)]
    IN  IF SortRaises(sort_entries)
        THEN [fn |-> "compute_order", raised |-> "TypeError", ordered |-> <<>>]
        ELSE [fn |-> "compute_order", raised |-> "none",
              ordered |-> Flatten(SortByKey(sort_entries, <<>>))]

\* The documents are loaded.
InitStroke ==
    /\ sk_graphemes \in StrokeDocLists
    /\ sk_popularity \in DictsOver({sk_graphemes[k].id : k \in 1..Len(sk_graphemes)}, {1})
    /\ sk_ret = [fn |-> "none"]
    /\ IdleNorm /\ IdleComp /\ IdlePop /\ IdleOrder /\ IdleValidate /\ IdleDocs /\ IdleRead /\ IdleDeps /\ IdleColl /\ IdleLoad /\ IdleReady /\ IdleRefine

\* main(): ordered = compute_order(graphemes, popularity, {}, {})
ComputeOrderStrokes ==
    /\ sk_ret.fn = "none"
    /\ sk_ret' = compute_order_strokes(sk_graphemes, sk_popularity)
    /\ UNCHANGED <<sk_graphemes, sk_popularity>>
    /\ UNCHANGED notStrokeVars

NextStroke ==
    \/ ComputeOrderStrokes

(***************************************************************************)
(* refine_documents.py                                                     *)
(***************************************************************************)

MAX_RETRIES == 3
RETRY_BASE_DELAY == 30

\* The documents of the directory are the files 1..MaxFiles, in the order
\* of their names.
MaxFiles == 2

\* discover_documents(docs_dir, pattern): sorted(directory.glob(pattern))
DocFiles == 1..MaxFiles

\* No thread holds ProgressLedger._lock.
NoThread == 0

\* How a subprocess.run call of run_batch ends: exit code 0, an exit code
\* other than 0 with a rate-limit message (_is_rate_limit) or without one,
\* subprocess.TimeoutExpired, or another exception.
Outcomes == {"success", "rate_limit", "failure", "timeout", "exception"}

\* ProgressLedger._load: the "completed" list of the file; the empty set if
\* there is no file or if its content is not JSON.
LedgerLoad(file, saved) == IF file = "json" THEN saved ELSE {}

\* batch_files(files, batch_size), each batch as the set of its files.
batch_files(files, batch_size) ==
    [b \in 1..((Len(files) + batch_size - 1) \div batch_size) |->
        {files[k] : k \in {j \in 1..Len(files) : (j - 1) \div batch_size = b - 1}}]

\* with self._lock: the lock can be taken.
LockFreeAlways(lock) == TRUE

LockFree(lock) == lock = NoThread

\* run_batch: attempt < MAX_RETRIES
AttemptsLeftAlways(attempt) == TRUE

AttemptsLeft(attempt) == attempt < MAX_RETRIES

\* run_batch: the time.sleep calls made after an attempt that ended with
\* the outcome given and is followed by another attempt.
RetryDelays(attempt, outcome) ==
    CASE outcome = "rate_limit" -> <<RETRY_BASE_DELAY * (2 ^ (attempt - 1))>>
      [] outcome = "failure" -> <<10 * attempt>>
      [] outcome = "timeout" -> <<>>
      [] outcome = "exception" -> <<10>>

\* The batches whose run_batch call a worker thread is running.
Running == {b \in DOMAIN rf_pc : rf_pc[b] \in {"call", "mark", "save", "write"}}

\* The ledger file left by earlier runs, and the arguments.  The options
\* --limit, --reset-progress and --dry-run are left at their defaults.
InitRefine ==
    /\ rf_file \in {"absent", "torn", "json"}
    /\ rf_saved \in SUBSET DocFiles
    /\ rf_file # "json" => rf_saved = {}
    /\ rf_batch_size \in 1..MaxFiles
    /\ rf_workers \in 1..MaxFiles
    /\ rf_completed = {}
    /\ rf_lock = NoThread
    /\ rf_loaded = {}
    /\ rf_batches = <<>>
    /\ rf_pc = <<>>
    /\ rf_attempt = <<>>
    /\ rf_outcomes = <<>>
    /\ rf_sleeps = <<>>
    /\ rf_data = <<>>
    /\ rf_before = <<>>
    /\ rf_main = "start"
    /\ IdleNorm /\ IdleComp /\ IdlePop /\ IdleOrder /\ IdleValidate /\ IdleDocs /\ IdleRead /\ IdleDeps /\ IdleColl /\ IdleLoad /\ IdleReady /\ IdleStroke

\* main(): ledger = ProgressLedger(ledger_path), the documents are
\* discovered, the files not yet done are batched and every batch is
\* submitted to the executor; main returns at once if no file remains.
StartMain ==
    /\ rf_main = "start"
    /\ rf_completed' = LedgerLoad(rf_file, rf_saved)
    /\ rf_loaded' = rf_completed'
    /\ rf_lock' = NoThread
    /\ rf_batches' = batch_files(SortedSeqOf({f \in DocFiles : f \notin rf_completed'}), rf_batch_size)
    /\ rf_pc' = [b \in DOMAIN rf_batches' |-> "queued"]
    /\ rf_attempt' = [b \in DOMAIN rf_batches' |-> 1]
    /\ rf_outcomes' = [b \in DOMAIN rf_batches' |-> <<>>]
    /\ rf_sleeps' = [b \in DOMAIN rf_batches' |-> <<>>]
    /\ rf_data' = [b \in DOMAIN rf_batches' |-> {}]
    /\ rf_main' = IF rf_batches' = <<>> THEN "done" ELSE "running"
    /\ UNCHANGED <<rf_file, rf_saved, rf_batch_size, rf_workers, rf_before>>
    /\ UNCHANGED notRefineVars

\* A worker thread of the executor takes the next batch of the queue.
StartBatch(b) ==
    /\ rf_main = "running"
    /\ rf_pc[b] = "queued"
    /\ \A a \in 1..(b - 1) : rf_pc[a] # "queued"
    /\ Cardinality(Running) < rf_workers
    /\ rf_pc' = [rf_pc EXCEPT ![b] = "call"]
    /\ UNCHANGED <<rf_file, rf_saved, rf_batch_size, rf_workers, rf_completed, rf_lock, rf_loaded, rf_batches, rf_attempt, rf_outcomes, rf_sleeps, rf_data, rf_before, rf_main>>
    /\ UNCHANGED notRefineVars

\* run_batch: one pass of the for loop, up to the call of mark_done, the
\* next attempt or the end of the loop.
Attempt(b, outcome) ==
    /\ rf_main = "running"
    /\ rf_pc[b] = "call"
    /\ rf_outcomes' = [rf_outcomes EXCEPT ![b] = Append(@, outcome)]
    /\ IF outcome = "success"
       THEN /\ rf_pc' = [rf_pc EXCEPT ![b] = "mark"]
            /\ UNCHANGED <<rf_attempt, rf_sleeps>>
       ELSE IF AttemptsLeft(rf_attempt[b])
       THEN /\ rf_sleeps' = [rf_sleeps EXCEPT ![b] = @ \o RetryDelays(rf_attempt[b], outcome)]
            /\ rf_attempt' = [rf_attempt EXCEPT ![b] = @ + 1]
            /\ UNCHANGED rf_pc
       ELSE /\ rf_pc' = [rf_pc EXCEPT ![b] = "failed"]
            /\ UNCHANGED <<rf_attempt, rf_sleeps>>
    /\ UNCHANGED <<rf_file, rf_saved, rf_batch_size, rf_workers, rf_completed, rf_lock, rf_loaded, rf_batches, rf_data, rf_before, rf_main>>
    /\ UNCHANGED notRefineVars

\* ProgressLedger.mark_done: the lock is taken, the file names are added
\* to _completed; _save: data = {"completed": sorted(self._completed)}
MarkDone(b) ==
    /\ rf_main = "running"
    /\ rf_pc[b] = "mark"
    /\ LockFree(rf_lock)
    /\ rf_lock' = b
    /\ rf_completed' = rf_completed \cup rf_batches[b]
    /\ rf_data' = [rf_data EXCEPT ![b] = rf_completed']
    /\ rf_pc' = [rf_pc EXCEPT ![b] = "save"]
    /\ UNCHANGED <<rf_file, rf_saved, rf_batch_size, rf_workers, rf_loaded, rf_batches, rf_attempt, rf_outcomes, rf_sleeps, rf_before, rf_main>>
    /\ UNCHANGED notRefineVars

\* ProgressLedger._save: write_text opens the file for writing, which
\* empties it.
OpenLedger(b) ==
    /\ rf_main = "running"
    /\ rf_pc[b] = "save"
    /\ rf_file' = "torn"
    /\ rf_saved' = {}
    /\ rf_pc' = [rf_pc EXCEPT ![b] = "write"]
    /\ UNCHANGED <<rf_batch_size, rf_workers, rf_completed, rf_lock, rf_loaded, rf_batches, rf_attempt, rf_outcomes, rf_sleeps, rf_data, rf_before, rf_main>>
    /\ UNCHANGED notRefineVars

\* ProgressLedger._save: the text is written and the file closed; the lock
\* is released, and run_batch returns (batch_index, True, summary).
WriteLedger(b) ==
    /\ rf_main = "running"
    /\ rf_pc[b] = "write"
    /\ rf_file' = "json"
    /\ rf_saved' = rf_data[b]
    /\ rf_lock' = IF rf_lock = b THEN NoThread ELSE rf_lock
    /\ rf_pc' = [rf_pc EXCEPT ![b] = "done"]
    /\ UNCHANGED <<rf_batch_size, rf_workers, rf_completed, rf_loaded, rf_batches, rf_attempt, rf_outcomes, rf_sleeps, rf_data, rf_before, rf_main>>
    /\ UNCHANGED notRefineVars

\* main(): every future has its result; the executor is left.
FinishMain ==
    /\ rf_main = "running"
    /\ \A b \in DOMAIN rf_pc : rf_pc[b] \in {"done", "failed"}
    /\ rf_main' = "done"
    /\ UNCHANGED <<rf_file, rf_saved, rf_batch_size, rf_workers, rf_completed, rf_lock, rf_loaded, rf_batches, rf_pc, rf_attempt, rf_outcomes, rf_sleeps, rf_data, rf_before>>
    /\ UNCHANGED notRefineVars

\* The files of the batches whose mark_done call has returned.
MarkedDone == UNION {rf_batches[b] : b \in {a \in DOMAIN rf_pc : rf_pc[a] = "done"}}

\* The process is killed; what it held in memory is gone, the ledger file
\* stays as it is, and the program is started again.
Crash ==
    /\ rf_main = "running"
    /\ rf_before = <<>>
    /\ rf_before' = Append(rf_before, MarkedDone)
    /\ rf_main' = "start"
    /\ rf_completed' = {}
    /\ rf_loaded' = {}
    /\ rf_lock' = NoThread
    /\ rf_batches' = <<>>
    /\ rf_pc' = <<>>
    /\ rf_attempt' = <<>>
    /\ rf_outcomes' = <<>>
    /\ rf_sleeps' = <<>>
    /\ rf_data' = <<>>
    /\ UNCHANGED <<rf_file, rf_saved, rf_batch_size, rf_workers>>
    /\ UNCHANGED notRefineVars

NextRefine ==
    \/ StartMain
    \/ \E b \in DOMAIN rf_pc : StartBatch(b)
    \/ \E b \in DOMAIN rf_pc, outcome \in Outcomes : Attempt(b, outcome)
    \/ \E b \in DOMAIN rf_pc : MarkDone(b)
    \/ \E b \in DOMAIN rf_pc : OpenLedger(b)
    \/ \E b \in DOMAIN rf_pc : WriteLedger(b)
    \/ FinishMain

NextResume ==
    \/ NextRefine
    \/ Crash

(***************************************************************************)
(* Specifications                                                          *)
(***************************************************************************)

SpecNorm == InitNorm /\ [][NextNorm]_vars

\* Python runs a started call to its end.
FairSpecNorm == SpecNorm /\ WF_vars(NextNorm)

SpecComp == InitComp /\ [][NextComp]_vars

SpecPop == InitPop /\ [][NextPop]_vars

SpecOrder == InitOrder /\ [][NextOrder]_vars

SpecValidate == InitValidate /\ [][NextValidate]_vars

SpecDocs == InitDocs /\ [][NextDocs]_vars

SpecCache == InitCache /\ [][NextCache]_vars

SpecRead == InitRead /\ [][NextRead]_vars

SpecDeps == InitDeps /\ [][NextDeps]_vars

SpecColl == InitColl /\ [][NextColl]_vars

SpecLoad == InitLoad /\ [][NextLoad]_vars

\* Python runs calculate_popularity to its end: no call is left waiting.
FairSpecPop == SpecPop /\ WF_vars(NextPop)

SpecReady == InitReady /\ [][NextReady]_vars

SpecStroke == InitStroke /\ [][NextStroke]_vars

SpecRefine == InitRefine /\ [][NextRefine]_vars

\* The same with the process killed once, at any point of the run.
SpecResume == InitRefine /\ [][NextResume]_vars

(***************************************************************************)
(* C1.  Popularity is order-independent: calculate_popularity run with     *)
(* kanji_dict iterated in two different orders gives every entry the same  *)
(* final popularity, whatever the component tables are and also when       *)
(* several raw spellings normalize to the same entry.                      *)
(***************************************************************************)
C1_OrderIndependent ==
    pop_pc = "done" => pop_popularity = pop_first

(***************************************************************************)
(* C2.  Learning-order totality and contiguity: the list returned by       *)
(* compute_order holds every input grapheme $id exactly once and no other  *)
(* $id, so that the positions of the emitted document are exactly 0..n-1,  *)
(* with no position and no item $id twice.                                 *)
(***************************************************************************)
C2_TotalAndContiguous ==
    ord_pc \in {"ordered", "done"} =>
        LET ids == {ord_graphemes[k].id : k \in 1..Len(ord_graphemes)}
        IN  /\ \A gid \in ids :
                Cardinality({k \in 1..Len(ord_result) : ord_result[k] = gid}) = 1
            /\ \A k \in 1..Len(ord_result) : ord_result[k] \in ids
            /\ Len(ord_doc) = Cardinality(ids)
            /\ {ord_doc[k].position : k \in 1..Len(ord_doc)} = 0..(Cardinality(ids) - 1)
            /\ \A i, j \in 1..Len(ord_doc) :
                (ord_doc[i].position = ord_doc[j].position
                    \/ ord_doc[i].item = ord_doc[j].item) => i = j

(***************************************************************************)
(* C3.  Variant-group contiguity: the members of every declared variant    *)
(* group occupy consecutive positions of the order returned by             *)
(* compute_order, and the first of these positions holds the base member   *)
(* (the member whose name does not contain 'Variant').                     *)
(***************************************************************************)
C3_GroupsContiguous ==
    ord_pc \in {"ordered", "done"} =>
        \A g \in 1..Len(ord_groups) :
            LET members == {ord_groups[g].members[k] : k \in 1..Len(ord_groups[g].members)}
                at == {k \in 1..Len(ord_result) : ord_result[k] \in members}
            IN  /\ \A m \in members : \E k \in at : ord_result[k] = m
                /\ Cardinality(at) = Cardinality(members)
                /\ \A i, j \in at : \A k \in i..j : k \in at
                /\ \A i \in at : (\A j \in at : i <= j) =>
                    \E d \in 1..Len(ord_graphemes) :
                        /\ ord_graphemes[d].id = ord_result[i]
                        /\ ~ord_graphemes[d].variant

(***************************************************************************)
(* C4.  Ordering determinism: for fixed graphemes, popularity values and   *)
(* variant-group documents, compute_order returns the same list whatever   *)
(* the order in which the graphemes mapping and the variant-group mapping  *)
(* are iterated.                                                           *)
(***************************************************************************)
C4_OrderDeterministic ==
    ord_pc = "done" => ord_again = ord_result

(***************************************************************************)
(* C5.  Dependency validation: validate_order reports exactly one          *)
(* violation for each recorded edge parent -> component whose two $ids     *)
(* both have a position and position(component) >= position(parent), with  *)
(* these two positions, and reports nothing for any other edge.            *)
(***************************************************************************)
C5_ValidateExact ==
    val_ret.fn # "none" =>
        LET Has(gid) == \E k \in 1..Len(val_ordered) : val_ordered[k] = gid
            Pos(gid) == (CHOOSE k \in 1..Len(val_ordered) :
                            /\ val_ordered[k] = gid
                            /\ \A j \in (k + 1)..Len(val_ordered) : val_ordered[j] # gid) - 1
            Recorded(p, c) == \E d \in 1..Len(val_deps) :
                                /\ val_deps[d].parent = p
                                /\ \E k \in 1..Len(val_deps[d].components) :
                                        val_deps[d].components[k] = c
            Reports(p, c) == {k \in 1..Len(val_ret.violations) :
                                /\ val_ret.violations[k].parent = p
                                /\ val_ret.violations[k].comp = c}
        IN  \A p \in OrdIds, c \in OrdIds :
                IF Recorded(p, c) /\ Has(p) /\ Has(c) /\ Pos(c) >= Pos(p)
                THEN /\ Cardinality(Reports(p, c)) = 1
                     /\ \A k \in Reports(p, c) :
                            /\ val_ret.violations[k].comp_pos = Pos(c)
                            /\ val_ret.violations[k].parent_pos = Pos(p)
                ELSE Reports(p, c) = {}

\* validate_order has reported an edge whose parent stands at position 0,
\* has passed an edge whose component stands earlier, and has passed an
\* edge with a $id that is not in the order.
C5_Witness ==
    /\ val_ret.fn # "none"
    /\ \E k \in 1..Len(val_ret.violations) :
        /\ val_ret.violations[k].parent_pos = 0
        /\ val_ret.violations[k].comp_pos > 0
    /\ \E d \in 1..Len(val_deps) : \E k \in 1..Len(val_deps[d].components) :
        /\ \E i, j \in 1..Len(val_ordered) :
            /\ i < j
            /\ val_ordered[i] = val_deps[d].components[k]
            /\ val_ordered[j] = val_deps[d].parent
        /\ \A v \in 1..Len(val_ret.violations) :
            ~(/\ val_ret.violations[v].parent = val_deps[d].parent
              /\ val_ret.violations[v].comp = val_deps[d].components[k])
    /\ \E d \in 1..Len(val_deps) : \E k \in 1..Len(val_deps[d].components) :
        \A i \in 1..Len(val_ordered) : val_ordered[i] # val_deps[d].components[k]

(***************************************************************************)
(* C6.  Self-exclusion: neither c nor normalize(c) is a member of          *)
(* get_all_components_expanded(c, ...), whatever the two source tables and *)
(* the normalizer are.                                                     *)
(***************************************************************************)
C6_SelfExclusion ==
    comp_ret.fn = "expanded" =>
        /\ comp_char \notin comp_ret.set
        /\ normalizer[comp_char] \notin comp_ret.set

\* The expanded call was made for a character whose normalized form differs
\* from it and is one of its CHISE components, next to another component.
C6_Witness ==
    /\ comp_ret.fn = "expanded"
    /\ normalizer[comp_char] # comp_char
    /\ normalizer[comp_char] \in ChiseLookup(comp_char, chise_ids)
    /\ comp_ret.set # {}

(***************************************************************************)
(* C9.  Atomic vs. decomposed consistency, as claimed: if the CHISE        *)
(* self-description of c yields exactly {c}, get_components(c, ...)        *)
(* returns the empty set with the tag 'chise-atomic', whatever the         *)
(* fallback source and the normalizer are.                                 *)
(***************************************************************************)
C9_SelfDescribed ==
    /\ comp_char \in DOMAIN chise_ids
    /\ extract_ids_components(chise_ids[comp_char]) = {comp_char}

C9_AtomicAsClaimed ==
    (comp_ret.fn = "components" /\ C9_SelfDescribed) =>
        (comp_ret.set = {} /\ comp_ret.source = "chise-atomic")

(***************************************************************************)
(* C9, amended.  If the CHISE self-description of c yields exactly {c},    *)
(* and neither the CHISE lookup of normalize(c) nor the KanjiVG lookups of *)
(* c and of normalize(c) yield a component, get_components(c, ...) returns *)
(* the empty set with the tag 'chise-atomic'.                              *)
(***************************************************************************)
C9_AtomicAmended ==
    ( /\ comp_ret.fn = "components"
      /\ C9_SelfDescribed
      /\ ChiseLookup(normalizer[comp_char], chise_ids) = {}
      /\ KanjivgLookup(comp_char, kanjivg_chars, kvg_files) = {}
      /\ KanjivgLookup(normalizer[comp_char], kanjivg_chars, kvg_files) = {} )
    => (comp_ret.set = {} /\ comp_ret.source = "chise-atomic")

\* get_components has answered for a self-described character that is also
\* in the KanjiVG index (without components) and normalizes to another one.
C9_Witness ==
    /\ comp_ret.fn = "components"
    /\ C9_SelfDescribed
    /\ normalizer[comp_char] # comp_char
    /\ comp_char \in kanjivg_chars
    /\ comp_ret.source = "chise-atomic"

(***************************************************************************)
(* C10.  Tried-in-order resolution: get_components returns a CHISE result  *)
(* whenever the CHISE lookup of char or of normalize(char) is non-empty:   *)
(* the larger of the two sets, the lookup of char on equal size.  KanjiVG  *)
(* is consulted only when both CHISE lookups are empty, and then with the  *)
(* same rule.                                                              *)
(***************************************************************************)
C10_TriedInOrder ==
    comp_ret.fn = "components" =>
        LET n  == normalizer[comp_char]
            po == ChiseLookup(comp_char, chise_ids)
            pn == ChiseLookup(n, chise_ids)
            ko == KanjivgLookup(comp_char, kanjivg_chars, kvg_files)
            kn == KanjivgLookup(n, kanjivg_chars, kvg_files)
        IN  /\ (po # {} \/ pn # {}) =>
                /\ comp_ret.source = "chise"
                /\ comp_ret.set = IF Cardinality(po) >= Cardinality(pn) THEN po ELSE pn
                /\ ~comp_ret.kvg_consulted
                /\ kanjivg_cache = comp_ret.kvg_before
            /\ (po = {} /\ pn = {}) =>
                /\ comp_ret.kvg_consulted
                /\ (ko # {} \/ kn # {}) =>
                    /\ comp_ret.source = "kanjivg"
                    /\ comp_ret.set = IF Cardinality(ko) >= Cardinality(kn) THEN ko ELSE kn
                /\ (ko = {} /\ kn = {}) =>
                    /\ comp_ret.set = {}
                    /\ comp_ret.source \notin {"chise", "kanjivg"}

\* get_components has answered where the two CHISE lookups are different
\* sets of the same size.
C10_Witness ==
    /\ comp_ret.fn = "components"
    /\ LET po == ChiseLookup(comp_char, chise_ids)
           pn == ChiseLookup(normalizer[comp_char], chise_ids)
       IN  po # pn /\ Cardinality(po) = Cardinality(pn) /\ po # {}

(***************************************************************************)
(* C7.  Normalizer idempotence: normalize(normalize(c)) = normalize(c) for *)
(* every single character c, every behaviour of the platform normalization *)
(* and every variant table.                                                *)
(***************************************************************************)
C7_NormalizerIdempotent ==
    Len(norm_outs) = 2 => norm_outs[2] = norm_outs[1]

(***************************************************************************)
(* C8.  Normalizer termination: a normalize call of a single character     *)
(* comes to its end, and nfkc's loop never runs more iterations than the   *)
(* number of forms seen plus one, also when the platform normalization     *)
(* cycles.                                                                 *)
(***************************************************************************)
C8_NfkcTerminates ==
    /\ [](norm_iters <= Cardinality(norm_seen) + 1)
    /\ <>(norm_pc = "done")

\* nfkc has returned because the platform led back to a form seen earlier
\* (a cycle of at least two forms), and the call has ended.
C8_Witness ==
    /\ norm_pc = "done"
    /\ Cardinality(norm_seen) >= 3
    /\ norm_result \in DOMAIN nfkc_table
    /\ nfkc_table[norm_result] # norm_result
    /\ nfkc_table[norm_result] \in norm_seen

(***************************************************************************)
(* C11.  Source-tag classification: get_components returns a non-empty set *)
(* exactly when its tag is 'chise' or 'kanjivg'; when neither source       *)
(* yields a component the tag is 'chise-atomic' if char or normalize(char) *)
(* is in the CHISE table, else 'kanjivg-atomic' if one of them is in the   *)
(* KanjiVG index, else 'none'.                                             *)
(***************************************************************************)
C11_SourceTag ==
    comp_ret.fn = "components" =>
        LET n == normalizer[comp_char]
            nothing ==
                /\ ChiseLookup(comp_char, chise_ids) = {}
                /\ ChiseLookup(n, chise_ids) = {}
                /\ KanjivgLookup(comp_char, kanjivg_chars, kvg_files) = {}
                /\ KanjivgLookup(n, kanjivg_chars, kvg_files) = {}
            in_chise == comp_char \in DOMAIN chise_ids \/ n \in DOMAIN chise_ids
            in_kvg == comp_char \in kanjivg_chars \/ n \in kanjivg_chars
        IN  /\ comp_ret.set # {} <=> comp_ret.source \in {"chise", "kanjivg"}
            /\ nothing =>
                /\ comp_ret.source = "chise-atomic" <=> in_chise
                /\ comp_ret.source = "kanjivg-atomic" <=> (~in_chise /\ in_kvg)
                /\ comp_ret.source = "none" <=> (~in_chise /\ ~in_kvg)

\* get_components has answered for a character that is in neither source
\* itself, whose normalized form is in the KanjiVG index without components.
C11_Witness ==
    /\ comp_ret.fn = "components"
    /\ comp_ret.source = "kanjivg-atomic"
    /\ comp_char \notin kanjivg_chars
    /\ normalizer[comp_char] \in kanjivg_chars

(***************************************************************************)
(* C12.  Popularity lower bound: when calculate_popularity has finished,   *)
(* every component c of the expanded component set of an entry of          *)
(* kanji_dict whose normalized form is a key of kanji_dict has             *)
(* popularity(normalize(c)) >= 1.  Both runs of the model are held to it.  *)
(***************************************************************************)
C12_PopularityLowerBound ==
    pop_pc = "done" =>
        \A p \in DOMAIN pop_popularity :
            \A c \in get_expanded_children(pop_original[p], pop_graphemes, chise_ids,
                        kanjivg_chars, kvg_files, normalizer,
                        chise_cache, kanjivg_cache).set :
                normalizer[c] \in DOMAIN pop_popularity =>
                    /\ pop_popularity[normalizer[c]] >= 1
                    /\ pop_first[normalizer[c]] >= 1

\* calculate_popularity has finished for a table in which an entry has a
\* component written with a raw spelling (the radical U+2E96) whose
\* normalized form is a key of kanji_dict.
C12_Witness ==
    /\ pop_pc = "done"
    /\ \E p \in DOMAIN pop_popularity :
        \E c \in get_expanded_children(pop_original[p], pop_graphemes, chise_ids,
                    kanjivg_chars, kvg_files, normalizer,
                    chise_cache, kanjivg_cache).set :
            /\ c # normalizer[c]
            /\ normalizer[c] \in DOMAIN pop_popularity
            /\ pop_popularity[normalizer[c]] >= 1

(***************************************************************************)
(* C13.  Idempotent document write: write_json_document(doc, path) returns *)
(* False and leaves the file as it is when the file parses to a value      *)
(* equal to doc; otherwise (no file, another value, a file that does not   *)
(* parse) it returns True and the file then parses to doc.  Hence a write  *)
(* of the same document by the next run of the generator returns False.    *)
(***************************************************************************)
C13_IdempotentWrite ==
    gen_last.fn = "write" =>
        LET doc == gen_docs[gen_last.name]
            before == gen_last.before
            after == fs_files[gen_last.name]
            equal == /\ before.kind = "json"
                     /\ before.value.id = doc.id
                     /\ before.value.strokeCount[2] = doc.strokeCount[2]
        IN  /\ gen_last.raised = "none"
            /\ equal => (~gen_last.ret /\ after = before)
            /\ ~equal => /\ gen_last.ret
                         /\ after.kind = "json"
                         /\ after.value = doc
            /\ gen_last.run > 1 => ~gen_last.ret

(***************************************************************************)
(* C14.  Document set reconciliation: in a run that is no dry run,         *)
(* to_create, to_update and to_delete are pairwise disjoint, and when the  *)
(* write and delete loops are over the *.json files of the target          *)
(* directory are exactly the files of the documents built.                 *)
(***************************************************************************)
C14_Reconciled ==
    /\ (gen_pc \in {"writing", "deleting", "done"} /\ ~gen_dry_run) =>
        /\ gen_sets.create \cap gen_sets.update = {}
        /\ gen_sets.create \cap gen_sets.delete = {}
        /\ gen_sets.update \cap gen_sets.delete = {}
    /\ (gen_pc = "done" /\ ~gen_dry_run) =>
        GlobJson(fs_files) = DOMAIN gen_docs

\* A first run has ended after it created a file, rewrote or kept another
\* and deleted a stale one.
C14_Witness ==
    /\ gen_pc = "done"
    /\ ~gen_dry_run
    /\ gen_run = 1
    /\ gen_sets.create # {}
    /\ gen_sets.update # {}
    /\ gen_sets.delete # {}
    /\ gen_last.fn = "delete"
    /\ gen_last.ret

(***************************************************************************)
(* C15.  No stale cache data across normalizer configurations: whatever    *)
(* calls of get_components and get_all_components_expanded were made       *)
(* before, with whatever normalizers, and whether or not a cache was       *)
(* cleared in between, a call returns what it returns from empty caches.   *)
(***************************************************************************)
C15_NoStaleCache ==
    comp_ret.fn \in {"components", "expanded"} =>
        /\ comp_ret.set = comp_ret.cold
        /\ comp_ret.source = comp_ret.cold_source

\* A call made with another normalizer than the call before it has found
\* an entry of the caches and has returned components.
C15_Witness ==
    /\ comp_ret.fn \in {"components", "expanded"}
    /\ comp_ret.hit
    /\ comp_ret.switched
    /\ comp_ret.set # {}

(***************************************************************************)
(* C16, as claimed.  validate_learning_order_document raises ValueError    *)
(* for every document in which two entries share an item $id, two entries  *)
(* share a position, the positions are not exactly 0..n-1, or (for a       *)
(* document meant as the default track) data.trackId is not 'default'; a   *)
(* document with valid data fields, unique ids and positions that are a    *)
(* permutation of 0..n-1 is accepted.                                      *)
(***************************************************************************)
C16_Malformed ==
    LET many == lo_document.many
        n == Len(many)
    IN  \/ \E i, j \in 1..n : i # j /\ many[i].item = many[j].item
        \/ \E i, j \in 1..n : i # j /\ many[i].position = many[j].position
        \/ {many[k].position : k \in 1..n} # 0..(n - 1)
        \/ /\ lo_ret.intended_default_track
           /\ lo_document.data # <<>>
           /\ lo_document.data[1].trackId # <<StrDefault>>

C16_ValidDataFields ==
    /\ lo_document.data # <<>>
    /\ lo_document.data[1].contentType = <<StrGrapheme>>
    /\ lo_document.data[1].trackId \in {<<StrDefault>>, <<StrN5Core>>}

C16_ReadBackAsClaimed ==
    lo_ret.fn = "validate" =>
        /\ C16_Malformed => lo_ret.raised # "none"
        /\ (C16_ValidDataFields /\ ~C16_Malformed) => lo_ret.raised = "none"

(***************************************************************************)
(* C16, amended.  As above, with the document that is accepted having at   *)
(* least one entry: a document whose "many" is empty is rejected too.      *)
(***************************************************************************)
C16_ReadBackAmended ==
    lo_ret.fn = "validate" =>
        /\ C16_Malformed => lo_ret.raised # "none"
        /\ (C16_ValidDataFields /\ ~C16_Malformed /\ lo_document.many # <<>>)
                => lo_ret.raised = "none"
        /\ lo_document.many = <<>> => lo_ret.raised # "none"

\* A document with valid data fields and three distinct items, two of them
\* on the same position, has been rejected for that.
C16_Witness ==
    /\ lo_ret.fn = "validate"
    /\ C16_ValidDataFields
    /\ Len(lo_document.many) = 3
    /\ lo_document.many[2].position = lo_document.many[3].position
    /\ lo_ret.raised = "many entries cannot repeat the same data.position value"

\* The list has no element twice.
NoRepeat(ids) == \A i, j \in 1..Len(ids) : ids[i] = ids[j] => i = j

\* C17: no dependency document of the grapheme or of the kanji dependency
\* generator names its parent among its components / prerequisites, also
\* when a component is reached through a variant or normalizes to the parent.
C17_NoSelfLoops ==
    /\ \A gid \in DOMAIN dep_new : gid \notin Range(dep_new[gid])
    /\ \A kanji_id \in DOMAIN dep_knew : kanji_id \notin Range(dep_knew[kanji_id])

\* Both generators have emitted a document for a parent whose expanded
\* components hold a character that normalizes to the parent itself; for the
\* grapheme it is reached through the variant spelling.
C17_Witness ==
    /\ dep_pc = "done"
    /\ \E gid \in DOMAIN dep_new :
        /\ dep_graphemes[gid] # <<>>
        /\ \E comp \in GraphemeGiantSet(gid, dep_graphemes, chise_ids, kanjivg_chars,
                            kvg_files, normalizer, EmptyDict, EmptyDict).set :
            comp # gid /\ normalizer[comp] = gid
    /\ \E kanji_id \in DOMAIN dep_knew :
        \E comp \in get_all_components_expanded(kanji_id, chise_ids, kanjivg_chars,
                        kvg_files, DepNfkcPlus, EmptyDict, EmptyDict).set :
            DepNfkcPlus[comp] = kanji_id

\* C18: no component id occurs twice in a dependency document of either
\* generator nor in a list load_dependencies returns.
C18_Deduplicated ==
    /\ \A gid \in DOMAIN dep_new : NoRepeat(dep_new[gid])
    /\ \A kanji_id \in DOMAIN dep_knew : NoRepeat(dep_knew[kanji_id])
    /\ dep_loaded.fn = "load" => NoRepeat(dep_loaded.components)

\* A document was emitted for a parent that contains its component twice
\* and for a parent with two spellings of one component, and
\* load_dependencies read a list with a repeated id.
C18_Witness ==
    /\ dep_loaded.fn = "load"
    /\ ~NoRepeat(dep_loaded.many)
    /\ Len(dep_loaded.components) = 2
    /\ \E gid \in DOMAIN dep_new \cap DOMAIN chise_ids :
        chise_ids[gid][2] = chise_ids[gid][3]
    /\ \E kanji_id \in DOMAIN dep_knew \cap DOMAIN chise_ids :
        /\ chise_ids[kanji_id] = <<12272, 11926, 24516>>
        /\ dep_knew[kanji_id] = <<24516>>

\* The stroke counts of the entries that normalize to the kanji.
StrokeCountsOf(entries, id) ==
    {entries[i].stroke_count : i \in {k \in 1..Len(entries) :
                                        LiteralNfkcPlus(entries[k].literal) = id}}

\* The entries a document is built from: those with English meanings.
WithMeanings(entries) == SelectSeq(entries, LAMBDA e : e.meanings)

\* build_memoization_dict keeps, for each kanji, the lowest stroke count of
\* the entries that normalize to it, in whatever order they were read.
C19_MemoKeepsLowest ==
    kd_idx > Len(kd_entries) =>
        \A id \in DOMAIN kanji_dict :
            \A n \in StrokeCountsOf(kd_entries, id) : kanji_dict[id].stroke_count <= n

\* C19: when several entries normalize to one kanji, the entry kept is the
\* one with the lowest stroke count, in whatever order the entries are read:
\* in kanji_dict, and in the kanji documents.
C19_LowestStrokeCountKept ==
    /\ C19_MemoKeepsLowest
    /\ kg_idx > Len(kd_entries) =>
        \A id \in DOMAIN new_documents :
            \A n \in StrokeCountsOf(WithMeanings(kd_entries), id) :
                new_documents[id].strokeCount <= n

\* With the IDS file absent, load_chise_ids gives an empty table and the
\* resolution returns what KanjiVG gives for the character.
C20_IdsFileAbsent ==
    ~ids_file.present =>
        /\ load_pc \in {"load_index", "resolve", "done"} => chise_ids = EmptyDict
        /\ load_pc = "done" =>
            comp_ret.set = get_kanjivg_components(comp_char, kanjivg_chars, kvg_files,
                                                  EmptyDict)

\* C20: with either source file absent (the IDS file or kvg-index.json),
\* loading does not fail, no character has a decomposition from that
\* source, and resolution returns the result of the other source.
C20_MissingSourceDegrades ==
    /\ load_raised = "none"
    /\ C20_IdsFileAbsent
    /\ ~index_file.present =>
        /\ load_pc \in {"resolve", "done"} => kanjivg_chars = {}
        /\ load_pc = "done" =>
            comp_ret.set = get_chise_components(comp_char, chise_ids, EmptyDict)

\* What the IDS table alone gives for a character.
PrimaryOf(char) == get_chise_components(char, chise_ids, EmptyDict)

\* What the KanjiVG index and files alone give for a character.
FallbackOf(char) == get_kanjivg_components(char, kanjivg_chars, kvg_files, EmptyDict)

\* C21: get_all_components_expanded(c) is primary(c), primary(normalize(c)),
\* fallback(c) and fallback(normalize(c)) put together, without c and
\* normalize(c): nothing is missing and nothing else is in it.
C21_ExpandedUnionExact ==
    comp_ret.fn = "expanded" =>
        comp_ret.set = (PrimaryOf(comp_char) \cup PrimaryOf(normalizer[comp_char])
                        \cup FallbackOf(comp_char) \cup FallbackOf(normalizer[comp_char]))
                       \ {comp_char, normalizer[comp_char]}

\* A call for a character that normalizes to another one, where KanjiVG
\* gives for the normalized form a component no other lookup gives, and
\* one of the lookups gave the normalized form itself.
C21_Witness ==
    /\ comp_ret.fn = "expanded"
    /\ normalizer[comp_char] # comp_char
    /\ PrimaryOf(comp_char) # {}
    /\ FallbackOf(normalizer[comp_char])
         \ (PrimaryOf(comp_char) \cup PrimaryOf(normalizer[comp_char])
            \cup FallbackOf(comp_char) \cup {comp_char, normalizer[comp_char]}) # {}
    /\ normalizer[comp_char] \in PrimaryOf(comp_char)
    /\ comp_ret.set # {}

\* A run of calculate_popularity has gone through every entry.
PopRunOver ==
    /\ pop_pc \in {"run1", "run2", "done"}
    /\ pop_stack = <<>>
    /\ pop_idx > Len(pop_order)

\* C22: after calculate_popularity, the popularity of an entry is the number
\* of distinct parents the traversal found it under: no (parent, component)
\* pair is credited twice.
C22_DistinctUsages ==
    PopRunOver =>
        \A c \in DOMAIN pop_popularity :
            pop_popularity[c] = Cardinality({e \in pop_edges : e[2] = c})

\* C23: expanding a character p never counts p's own entry: the child set
\* process_children(p) goes through holds neither p nor a spelling that
\* normalizes to normalize(p).
C23_NoSelfCounting ==
    /\ \A k \in 1..Len(pop_stack) :
        \A child \in pop_stack[k].children :
            /\ child # pop_stack[k].char
            /\ normalizer[child] # normalizer[pop_stack[k].char]
    /\ \A e \in pop_edges : e[2] # normalizer[e[1]]

\* C24: popularity propagation terminates on every finite component graph,
\* also with cycles and with several spellings of one entry: an entry is
\* recursed into at its 0 -> 1 transition only, hence at most once in a run,
\* and the run comes to its end.
C24_PropagationTerminates ==
    /\ [](\A c \in DOMAIN pop_recursed : pop_recursed[c] <= 1)
    /\ <>(pop_pc = "done")

\* Both runs have ended on a table with a cycle (two entries that are each
\* other's component); an entry was recursed into, and an entry was counted
\* again later without a second recursion.
C24_Witness ==
    /\ pop_pc = "done"
    /\ \E a, b \in DOMAIN chise_ids \cap DOMAIN pop_recursed :
        /\ a # b
        /\ b \in PrimaryOf(a)
        /\ a \in PrimaryOf(b)
        /\ pop_recursed[a] = 1
        /\ pop_popularity[a] >= 2

\* The graphemes among the components of a kanji.
GraphemeComponentsOf(kid) ==
    {GraphemeIdOf(comp)[1] : comp \in {c \in kr_components[kid] : GraphemeIdOf(c) # <<>>}}

\* The readiness compute_order sorts a kanji by.
ReadinessUsed(kid) == DictGet(kr_readiness, kid, DEFAULT_READINESS)

\* The place of a kanji in the order.
PlaceOf(kid) == CHOOSE k \in 1..Len(kr_ordered) : kr_ordered[k] = kid

\* There is no readiness data at all: no kanji-grapheme dependency document
\* or no grapheme learning order.
NoReadinessData == kr_deps = EmptyDict \/ kr_positions = EmptyDict

\* C25: the readiness in the kanji sort key is the greatest grapheme-order
\* position among the kanji's grapheme components; a kanji without grapheme
\* components gets -1 and comes before the kanji of the same stroke count
\* that have components; 9999 is used only when there is no readiness data
\* at all.
C25_ReadinessSentinels ==
    kr_pc = "done" =>
        /\ \A kid \in DOMAIN kr_kanji :
            /\ GraphemeComponentsOf(kid) = {} =>
                    \/ ReadinessUsed(kid) = -1
                    \/ ReadinessUsed(kid) = DEFAULT_READINESS /\ NoReadinessData
            /\ \A gid \in GraphemeComponentsOf(kid) \cap DOMAIN kr_positions :
                    ReadinessUsed(kid) >= kr_positions[gid]
            /\ ReadinessUsed(kid) = DEFAULT_READINESS => NoReadinessData
        /\ \A a, b \in DOMAIN kr_kanji :
            /\ kr_kanji[a] = kr_kanji[b]
            /\ GraphemeComponentsOf(a) = {}
            /\ GraphemeComponentsOf(b) \cap DOMAIN kr_positions # {}
            => PlaceOf(a) < PlaceOf(b)

\* For the kanji that have a kanji-grapheme dependency document, the
\* readiness is the greatest position of their grapheme components, or -1
\* if none of them has a position.
C25_ReadinessOfDocuments ==
    kr_pc = "done" =>
        \A kid \in DOMAIN kr_deps :
            /\ \A gid \in GraphemeComponentsOf(kid) \cap DOMAIN kr_positions :
                    ReadinessUsed(kid) >= kr_positions[gid]
            /\ \/ ReadinessUsed(kid) = -1
                    /\ GraphemeComponentsOf(kid) \cap DOMAIN kr_positions = {}
               \/ \E gid \in GraphemeComponentsOf(kid) \cap DOMAIN kr_positions :
                    ReadinessUsed(kid) = kr_positions[gid]

\* The stroke count of the document is unknown: the key is absent or null.
StrokeUnknown(doc) == doc.strokeCount.kind # "number"

\* The place of a grapheme in the list returned.
StrokePlace(id) == CHOOSE k \in 1..Len(sk_ret.ordered) : sk_ret.ordered[k] = id

\* compute_order returns a total order that puts a grapheme of unknown
\* stroke count behind every grapheme of known stroke count.
UnknownSortsLast ==
    /\ sk_ret.raised = "none"
    /\ Len(sk_ret.ordered) = Len(sk_graphemes)
    /\ Range(sk_ret.ordered) = {sk_graphemes[k].id : k \in 1..Len(sk_graphemes)}
    /\ \A i, j \in 1..Len(sk_graphemes) :
        StrokeUnknown(sk_graphemes[i]) /\ ~StrokeUnknown(sk_graphemes[j])
        => StrokePlace(sk_graphemes[j].id) < StrokePlace(sk_graphemes[i].id)

\* C26: a grapheme whose strokeCount is absent or null is ordered by
\* compute_order as if it were 999: a total order is returned, and the
\* grapheme comes after every grapheme with a smaller known stroke count.
C26_UnknownStrokeCountSentinel ==
    sk_ret.fn = "compute_order" => UnknownSortsLast

\* The same for documents none of which has a null strokeCount.
C26_AbsentStrokeCount ==
    /\ sk_ret.fn = "compute_order"
    /\ \A k \in 1..Len(sk_graphemes) : sk_graphemes[k].strokeCount.kind # "null"
    => UnknownSortsLast

\* The run_batch call of the batch has returned.
Returned(b) == rf_pc[b] \in {"done", "failed"}

\* Some subprocess.run call made for the batch returned exit code 0.
ExitZero(b) == \E k \in 1..Len(rf_outcomes[b]) : rf_outcomes[b][k] = "success"

\* C27: whatever the outcomes of the external job are, run_batch invokes
\* it at most MAX_RETRIES times and not again after a success, and once
\* run_batch has returned, the files of the batch are in the ledger if and
\* only if some attempt returned exit code 0 (in the ledger file as well
\* once main has ended).
C27_RetryCeiling ==
    \A b \in DOMAIN rf_pc :
        /\ Len(rf_outcomes[b]) <= MAX_RETRIES
        /\ \A k \in 1..Len(rf_outcomes[b]) :
                rf_outcomes[b][k] = "success" => k = Len(rf_outcomes[b])
        /\ Returned(b) => (rf_batches[b] \subseteq rf_completed <=> ExitZero(b))
        /\ Returned(b) /\ ~ExitZero(b) => rf_batches[b] \cap rf_completed = {}
        /\ rf_main = "done" =>
                (rf_batches[b] \subseteq LedgerLoad(rf_file, rf_saved) <=> ExitZero(b))

\* A batch whose last allowed attempt succeeded after two failed ones, next
\* to a batch that used up its attempts.
C27_Witness ==
    /\ rf_main = "done"
    /\ \E b \in DOMAIN rf_pc :
        /\ Len(rf_outcomes[b]) = MAX_RETRIES
        /\ ExitZero(b)
        /\ rf_batches[b] \subseteq rf_completed
    /\ \E b \in DOMAIN rf_pc :
        /\ Len(rf_outcomes[b]) = MAX_RETRIES
        /\ ~ExitZero(b)
        /\ rf_batches[b] \cap rf_completed = {}

\* Every attempt made for the batch hit a rate limit, and no attempt is left.
OnlyRateLimits(b) ==
    /\ rf_pc[b] = "failed"
    /\ \A k \in 1..Len(rf_outcomes[b]) : rf_outcomes[b][k] = "rate_limit"

\* C28: a batch that keeps hitting rate limits has slept 30 s, then 60 s,
\* then 120 s when it is reported as failed.
C28_BackoffSchedule ==
    \A b \in DOMAIN rf_pc :
        OnlyRateLimits(b) =>
            rf_sleeps[b] = <<RETRY_BASE_DELAY, RETRY_BASE_DELAY * 2, RETRY_BASE_DELAY * 4>>

\* What run_batch does: two delays, 30 s and 60 s, and no delay after the
\* third rate limit.
C28_TwoDelays ==
    \A b \in DOMAIN rf_pc :
        OnlyRateLimits(b) => rf_sleeps[b] = <<RETRY_BASE_DELAY, RETRY_BASE_DELAY * 2>>

\* C29: once every worker has finished, ProgressLedger._completed and the
\* ledger file both hold the set loaded at the start together with the
\* files of every batch that succeeded, however the threads interleave.
C29_NoLostUpdates ==
    rf_main = "done" =>
        /\ rf_completed = rf_loaded \cup MarkedDone
        /\ LedgerLoad(rf_file, rf_saved) = rf_loaded \cup MarkedDone

\* Two worker threads, two batches that succeeded, and a ledger that held
\* nothing of them at the start.
C29_Witness ==
    /\ rf_main = "done"
    /\ rf_workers >= 2
    /\ Cardinality({b \in DOMAIN rf_pc : rf_pc[b] = "done"}) >= 2
    /\ rf_file = "json"
    /\ rf_saved = DocFiles

\* C30: after a crash at any point, the next run loads every file of every
\* batch whose mark_done had returned before the crash, and its batches
\* hold exactly the discovered files that are not in the loaded ledger.
C30_CrashResume ==
    rf_before # <<>> /\ rf_main # "start" =>
        /\ rf_before[1] \subseteq rf_loaded
        /\ UNION Range(rf_batches) = DocFiles \ rf_loaded

\* The second half alone: the batches of the next run are the discovered
\* files that the ledger it loaded does not hold.
C30_NoRework ==
    rf_before # <<>> /\ rf_main # "start" =>
        UNION Range(rf_batches) = DocFiles \ rf_loaded

\* The next run loads all of what mark_done had recorded, or nothing.
C30_AllOrNothing ==
    rf_before # <<>> /\ rf_main # "start" =>
        rf_before[1] \subseteq rf_loaded \/ rf_loaded = {}

====
